---- MODULE Spec2Model ----
(***************************************************************************)
(* Model of the rad-claude recommendation tools: suggest_agent,            *)
(* get_relevant_skills (with the cached skill discovery) and               *)
(* get_skill_resources.  Strings are sequences of one-character strings,   *)
(* so lower-casing, trimming and substring containment are computed.       *)
(***************************************************************************)
EXTENDS Integers, Sequences, FiniteSets, TLC

\* ------------------------------------------------------------------------
\* Bounds of the model
\* ------------------------------------------------------------------------
\* Largest number of vocabulary phrases joined into one prompt.
MaxWords == 2

\* ------------------------------------------------------------------------
\* JavaScript string primitives
\* ------------------------------------------------------------------------
Min(a, b) == IF a <= b THEN a ELSE b

UpperCase == <<"A","B","C","D","E","F","G","H","I","J","K","L","M",
               "N","O","P","Q","R","S","T","U","V","W","X","Y","Z">>

LowerCase == <<"a","b","c","d","e","f","g","h","i","j","k","l","m",
               "n","o","p","q","r","s","t","u","v","w","x","y","z">>

\* The characters String.prototype.trim removes.
WhiteSpace == {" ", "\t", "\n"}

\* String.prototype.toLowerCase
toLowerCaseChar(c) ==
  IF \E k \in 1..26 : UpperCase[k] = c
    THEN LowerCase[CHOOSE k \in 1..26 : UpperCase[k] = c]
    ELSE c

toLowerCase(s) == SubSeq([i \in 1..Len(s) |-> toLowerCaseChar(s[i])], 1, Len(s))

\* String.prototype.trim
trim(s) ==
  IF \A i \in 1..Len(s) : s[i] \in WhiteSpace
    THEN <<>>
    ELSE LET first == CHOOSE i \in 1..Len(s) :
                        /\ s[i] \notin WhiteSpace
                        /\ \A j \in 1..(i - 1) : s[j] \in WhiteSpace
             back  == CHOOSE k \in 0..(Len(s) - 1) :
                        /\ s[Len(s) - k] \notin WhiteSpace
                        /\ \A j \in (Len(s) - k + 1)..Len(s) : s[j] \in WhiteSpace
         IN  SubSeq(s, first, Len(s) - back)

\* String.prototype.includes: the empty string is included in every string.
includes(s, sub) ==
  \E i \in 1..(Len(s) - Len(sub) + 1) :
     \A j \in 1..Len(sub) : s[i + j - 1] = sub[j]

\* Array.prototype.includes
arrayIncludes(seq, x) == \E i \in 1..Len(seq) : seq[i] = x

\* ------------------------------------------------------------------------
\* suggest_agent
\* ------------------------------------------------------------------------
\* The agent catalog (description and whenToUse are fixed texts no
\* computation reads, and are left out).
AGENTS ==
  <<
    [ name |-> "task-spec-creator",
      complexitySignals |-> <<
        <<"m","u","l","t","i","-","s","t","e","p">>,
        <<"a","r","c","h","i","t","e","c","t","u","r","e">>,
        <<"r","e","f","a","c","t","o","r"," ","e","n","t","i","r","e">>,
        <<"r","e","d","e","s","i","g","n">>,
        <<"r","e","b","u","i","l","d">>,
        <<"m","a","j","o","r"," ","f","e","a","t","u","r","e">>,
        <<"c","o","m","p","l","e","x">>,
        <<"s","y","s","t","e","m">>,
        <<"b","u","i","l","d">>,
        <<"i","m","p","l","e","m","e","n","t"," ","n","e","w">>,
        <<"a","d","d"," ","f","e","a","t","u","r","e">> >>,
      domainSignals |-> <<
        <<"f","e","a","t","u","r","e">>,
        <<"s","y","s","t","e","m">>,
        <<"w","o","r","k","f","l","o","w">>,
        <<"i","n","t","e","g","r","a","t","i","o","n">> >>,
      estimatedDuration |-> ">4 hours" ],
    [ name |-> "convex-architect",
      complexitySignals |-> <<
        <<"i","m","p","l","e","m","e","n","t">>,
        <<"c","r","e","a","t","e">>,
        <<"b","u","i","l","d">>,
        <<"d","e","s","i","g","n">>,
        <<"r","e","f","a","c","t","o","r">> >>,
      domainSignals |-> <<
        <<"c","o","n","v","e","x">>,
        <<"m","u","t","a","t","i","o","n">>,
        <<"q","u","e","r","y">>,
        <<"a","c","t","i","o","n">>,
        <<"s","c","h","e","m","a">>,
        <<"d","a","t","a","b","a","s","e">>,
        <<"b","a","c","k","e","n","d">>,
        <<"a","p","i">>,
        <<"s","e","r","v","e","r">> >>,
      estimatedDuration |-> "1-4 hours" ],
    [ name |-> "security-auditor",
      complexitySignals |-> <<
        <<"a","u","d","i","t">>,
        <<"r","e","v","i","e","w">>,
        <<"c","h","e","c","k">>,
        <<"v","e","r","i","f","y">>,
        <<"a","s","s","e","s","s">>,
        <<"a","n","a","l","y","z","e">> >>,
      domainSignals |-> <<
        <<"s","e","c","u","r","i","t","y">>,
        <<"a","u","t","h">>,
        <<"a","u","t","h","e","n","t","i","c","a","t","i","o","n">>,
        <<"a","u","t","h","o","r","i","z","a","t","i","o","n">>,
        <<"v","a","l","i","d","a","t","i","o","n">>,
        <<"s","a","n","i","t","i","z","e">>,
        <<"v","u","l","n","e","r","a","b","i","l","i","t","y">>,
        <<"e","x","p","l","o","i","t">>,
        <<"x","s","s">>,
        <<"s","q","l"," ","i","n","j","e","c","t","i","o","n">>,
        <<"c","s","r","f">> >>,
      estimatedDuration |-> "1-2 hours" ],
    [ name |-> "plan-reviewer",
      complexitySignals |-> <<
        <<"r","e","v","i","e","w">>,
        <<"a","s","s","e","s","s">>,
        <<"e","v","a","l","u","a","t","e">>,
        <<"c","h","e","c","k">>,
        <<"v","a","l","i","d","a","t","e">> >>,
      domainSignals |-> <<
        <<"p","l","a","n">>,
        <<"s","p","e","c","i","f","i","c","a","t","i","o","n">>,
        <<"t","a","s","k"," ","s","p","e","c">>,
        <<"d","e","s","i","g","n">>,
        <<"a","p","p","r","o","a","c","h">>,
        <<"s","t","r","a","t","e","g","y">> >>,
      estimatedDuration |-> "30 minutes - 1 hour" ]
  >>

\* z.string().trim().min(1).max(10000)
MaxPromptLength == 10000

\* The length checks applied to the prompt as given, untrimmed.
promptSchemaUntrimmed(input) ==
  IF input.kind # "string"
    THEN [success |-> FALSE, issue |-> "invalid_type", data |-> <<>>]
  ELSE IF Len(input.prompt) < 1
    THEN [success |-> FALSE, issue |-> "too_small", data |-> <<>>]
  ELSE IF Len(input.prompt) > MaxPromptLength
    THEN [success |-> FALSE, issue |-> "too_big", data |-> <<>>]
  ELSE [success |-> TRUE, issue |-> "none", data |-> input.prompt]

\* The value an input object carries for a field: absent, of a type other
\* than string, or a string.
promptSchema(input) ==
  IF input.kind # "string"
    THEN [success |-> FALSE, issue |-> "invalid_type", data |-> <<>>]
  ELSE LET trimmed == trim(input.prompt) IN
    IF Len(trimmed) < 1
      THEN [success |-> FALSE, issue |-> "too_small", data |-> <<>>]
    ELSE IF Len(trimmed) > MaxPromptLength
      THEN [success |-> FALSE, issue |-> "too_big", data |-> <<>>]
    ELSE [success |-> TRUE, issue |-> "none", data |-> trimmed]

suggestAgentInputSchema(input) == promptSchema(input)

\* new Error(`Invalid input: ${validation.error.message}`)
InvalidInputError(validation) ==
  [ok |-> FALSE, error |-> <<"Invalid input", validation.issue>>]

\* The signals matchAgent pushes: complexity signals first, then domain
\* signals, each in catalog order, one entry per signal that the lower-cased
\* prompt includes.  (Before it: the same, looked for among the complexity
\* signals only.)
matchedComplexitySignalsOf(prompt, agent) ==
  LET normalizedPrompt == toLowerCase(prompt)
      hit(signal) == includes(normalizedPrompt, signal)
  IN  SelectSeq(agent.complexitySignals, hit)

matchedSignalsOf(prompt, agent) ==
  LET normalizedPrompt == toLowerCase(prompt)
      hit(signal) == includes(normalizedPrompt, signal)
  IN  SelectSeq(agent.complexitySignals, hit) \o SelectSeq(agent.domainSignals, hit)

\* The reasons generateReasoning collects; the text is their join.
generateReasoning(agent, matchedSignals) ==
  LET inComplexity(s) == arrayIncludes(agent.complexitySignals, s)
      inDomain(s) == arrayIncludes(agent.domainSignals, s)
      complexityMatches == SelectSeq(matchedSignals, inComplexity)
      domainMatches == SelectSeq(matchedSignals, inDomain)
      firstThree == SubSeq(domainMatches, 1, Min(3, Len(domainMatches)))
      strong == { <<"m","u","l","t","i","-","s","t","e","p">>, <<"a","r","c","h","i","t","e","c","t","u","r","e">>, <<"c","o","m","p","l","e","x">>, <<"m","a","j","o","r"," ","f","e","a","t","u","r","e">> }
      planWords == { <<"p","l","a","n">>, <<"s","p","e","c","i","f","i","c","a","t","i","o","n">> }
  IN  IF agent.name = "task-spec-creator" THEN
        (IF \E i \in 1..Len(complexityMatches) : complexityMatches[i] \in strong
           THEN << <<"complex multi-step task">> >> ELSE <<>>)
        \o (IF Len(matchedSignals) >= 3
              THEN << <<"estimated as", agent.estimatedDuration>> >> ELSE <<>>)
        \o << <<"task-spec-creator will create a specification">> >>
      ELSE IF agent.name = "convex-architect" THEN
        (IF Len(domainMatches) > 0
           THEN << <<"Convex-specific work detected", firstThree>> >> ELSE <<>>)
        \o << <<"convex-architect specializes in backend implementation">> >>
      ELSE IF agent.name = "security-auditor" THEN
        (IF Len(domainMatches) > 0
           THEN << <<"Security concerns", firstThree>> >> ELSE <<>>)
        \o << <<"security-auditor will review for vulnerabilities">> >>
      ELSE IF agent.name = "plan-reviewer" THEN
        (IF \E i \in 1..Len(domainMatches) : domainMatches[i] \in planWords
           THEN << <<"Plan or specification review requested">> >> ELSE <<>>)
        \o << <<"plan-reviewer will assess feasibility">> >>
      ELSE <<>>

baseConfidence == 60

bonusPerMatch == 10

maxConfidence == 95

\* matchAgent without the cap on the bonus.
matchAgentUncapped(prompt, agent) ==
  LET matchedSignals == matchedSignalsOf(prompt, agent) IN
  IF Len(matchedSignals) = 0
    THEN [confidence |-> 0, matchedSignals |-> <<>>, reasoning |-> <<>>]
    ELSE [confidence |-> baseConfidence + (Len(matchedSignals) - 1) * bonusPerMatch,
          matchedSignals |-> matchedSignals,
          reasoning |-> generateReasoning(agent, matchedSignals)]

matchAgent(prompt, agent) ==
  LET matchedSignals == matchedSignalsOf(prompt, agent) IN
  IF Len(matchedSignals) = 0
    THEN [confidence |-> 0, matchedSignals |-> <<>>, reasoning |-> <<>>]
    ELSE [confidence |-> Min(maxConfidence,
                             baseConfidence + (Len(matchedSignals) - 1) * bonusPerMatch),
          matchedSignals |-> matchedSignals,
          reasoning |-> generateReasoning(agent, matchedSignals)]

\* A threshold above the confidence of a single match.
minConfidenceAboveBase == baseConfidence + bonusPerMatch

minConfidence == 50

\* The loop of suggestAgent over the catalog: agents whose confidence reaches
\* the threshold, in catalog order.
RECURSIVE collectRecommendations(_, _, _)
collectRecommendations(prompt, agents, i) ==
  IF i > Len(agents) THEN <<>>
  ELSE LET m == matchAgent(prompt, agents[i])
           rest == collectRecommendations(prompt, agents, i + 1)
       IN  IF m.confidence >= minConfidence
             THEN << [agent |-> [name |-> agents[i].name,
                                 estimatedDuration |-> agents[i].estimatedDuration],
                      confidence |-> m.confidence,
                      reasoning |-> m.reasoning,
                      matchedSignals |-> m.matchedSignals] >> \o rest
             ELSE rest

\* Array.prototype.sort with the comparator (a, b) => b.confidence -
\* a.confidence: a stable sort, highest confidence first.
\* A sort that is not stable: an element goes behind the later elements of
\* equal confidence.
RECURSIVE sortByConfidenceUnstable(_)
sortByConfidenceUnstable(recs) ==
  IF Len(recs) <= 1 THEN recs
  ELSE LET head == recs[1]
           sortedTail == sortByConfidenceUnstable(Tail(recs))
           before == {k \in 0..Len(sortedTail) :
                        \A j \in 1..k : sortedTail[j].confidence >= head.confidence}
           pos == CHOOSE k \in before : \A k2 \in before : k2 <= k
       IN  SubSeq(sortedTail, 1, pos) \o <<head>>
             \o SubSeq(sortedTail, pos + 1, Len(sortedTail))

RECURSIVE sortByConfidence(_)
sortByConfidence(recs) ==
  IF Len(recs) <= 1 THEN recs
  ELSE LET head == recs[1]
           sortedTail == sortByConfidence(Tail(recs))
           before == {k \in 0..Len(sortedTail) :
                        \A j \in 1..k : sortedTail[j].confidence > head.confidence}
           pos == CHOOSE k \in before : \A k2 \in before : k2 <= k
       IN  SubSeq(sortedTail, 1, pos) \o <<head>>
             \o SubSeq(sortedTail, pos + 1, Len(sortedTail))

suggestAgent(input) ==
  LET validation == suggestAgentInputSchema(input) IN
  IF ~validation.success
    THEN InvalidInputError(validation)
    ELSE [ok |-> TRUE,
          value |-> [recommendations |->
             sortByConfidence(collectRecommendations(validation.data, AGENTS, 1))]]

\* ------------------------------------------------------------------------
\* Inputs
\* ------------------------------------------------------------------------
RECURSIVE Phrases(_, _)
Phrases(vocab, n) ==
  IF n <= 1 THEN vocab
  ELSE LET shorter == Phrases(vocab, n - 1)
       IN  shorter \cup {p \o <<" ">> \o w : p \in shorter, w \in vocab}

Repeat(c, n) == SubSeq([i \in 1..n |-> c], 1, n)

AgentVocab ==
  { <<"B","u","i","l","d">>,
    <<"s","y","s","t","e","m">>,
    <<"c","o","m","p","l","e","x"," ","m","u","l","t","i","-","s","t","e","p"," ","s","y","s","t","e","m">>,
    <<"a","d","d">>,
    <<"f","e","a","t","u","r","e">>,
    <<"a","u","t","h","e","n","t","i","c","a","t","i","o","n">>,
    <<"O","A","u","t","h">>,
    <<"r","e","v","i","e","w">>,
    <<"d","e","s","i","g","n">>,
    <<"c","o","o","k","i","n","g">> }

\* Prompts that decide the validation: empty, blank, padded, of the longest
\* accepted length (with and without surrounding blanks) and one longer.
EdgePrompts ==
  { <<>>, <<" ">>, <<" ", "\t", "\n">>,
    <<" ">> \o <<"r","e","v","i","e","w">> \o <<"\n">>,
    Repeat("a", MaxPromptLength),
    <<" ">> \o Repeat("a", MaxPromptLength) \o <<" ">>,
    Repeat("a", MaxPromptLength + 1) }

\* The prompt of the README's Example 2: "I want to build a complete
\* multi-step authentication system with OAuth, sessions, and role-based
\* access control".
ReadmeExamplePrompt ==
  <<"I"," ","w","a","n","t"," ","t","o"," ","b","u","i","l","d"," ","a"," ","c","o","m","p","l","e","t","e"," ","m","u","l","t","i","-","s","t","e","p"," ","a","u">>
    \o <<"t","h","e","n","t","i","c","a","t","i","o","n"," ","s","y","s","t","e","m"," ","w","i","t","h"," ","O","A","u","t","h",","," ","s","e","s","s","i","o","n","s">>
    \o <<","," ","a","n","d"," ","r","o","l","e","-","b","a","s","e","d"," ","a","c","c","e","s","s"," ","c","o","n","t","r","o","l">>

AgentPrompts == Phrases(AgentVocab, MaxWords) \cup EdgePrompts \cup {ReadmeExamplePrompt}

StringInputs(prompts) == {[kind |-> "string", prompt |-> p] : p \in prompts}

NonStringInputs ==
  {[kind |-> k, prompt |-> <<>>] : k \in {"notObject", "missing", "number"}}

AgentInputs == StringInputs(AgentPrompts) \cup NonStringInputs

\* The calls of suggestAgent the model makes, each with the Result it returns.
SuggestAgentCalls ==
  {[input |-> input, result |-> suggestAgent(input)] : input \in AgentInputs}

\* ------------------------------------------------------------------------
\* Skill discovery
\* ------------------------------------------------------------------------
\* String.prototype.split(','), on a string without surrogate pairs.
RECURSIVE split(_, _)
split(s, sep) ==
  IF \A i \in 1..Len(s) : s[i] # sep
    THEN <<s>>
    ELSE LET at == CHOOSE i \in 1..Len(s) :
                     s[i] = sep /\ \A j \in 1..(i - 1) : s[j] # sep
         IN  <<SubSeq(s, 1, at - 1)>> \o split(SubSeq(s, at + 1, Len(s)), sep)

\* String.prototype.startsWith
startsWith(s, prefix) ==
  Len(prefix) <= Len(s) /\ SubSeq(s, 1, Len(prefix)) = prefix

\* Array.prototype.map over a sequence of strings.
mapTrimLower(seq) == [i \in 1..Len(seq) |-> toLowerCase(trim(seq[i]))]

nonEmpty(k) == Len(k) > 0

\* extractKeywords that keeps the empty pieces of the split.
extractKeywordsUnfiltered(content) ==
  IF ~content.hasKeywordsLine THEN <<>>
  ELSE IF Len(content.keywordsLine) = 0 THEN <<>>
  ELSE mapTrimLower(split(content.keywordsLine, ","))

\* A SKILL.md file: `keywordsLine` is the text KEYWORDS_REGEX captures after
\* "Keywords:" in the body, or absent.
extractKeywords(content) ==
  IF ~content.hasKeywordsLine THEN <<>>
  ELSE IF Len(content.keywordsLine) = 0 THEN <<>>
  ELSE SelectSeq(mapTrimLower(split(content.keywordsLine, ",")), nonEmpty)

isNonEmptyString(p) == p.isString /\ Len(p.value) > 0

\* triggers.files.include of the frontmatter, kept when it is an array, and
\* of it the non-empty strings.
extractFilePatterns(frontmatter) ==
  IF ~frontmatter.hasInclude THEN <<>>
  ELSE LET kept == SelectSeq(frontmatter.include, isNonEmptyString)
       IN  [i \in 1..Len(kept) |-> kept[i].value]

\* parseFrontmatter: the frontmatter block is missing, empty, not YAML, or
\* parses to an object.
parseFrontmatter(content) ==
  IF content.frontmatter.block = "ok"
    THEN [ok |-> TRUE, value |-> content.frontmatter]
    ELSE [ok |-> FALSE, value |-> content.frontmatter]

\* skillFrontmatterSchema: name and description are required strings.
skillFrontmatterSchema(frontmatter) ==
  [success |-> frontmatter.name # "" /\ frontmatter.description # "",
   data |-> [name |-> frontmatter.name, description |-> frontmatter.description]]

\* The loop of discoverSkills, ended by the first file that cannot be read.
RECURSIVE scanSkillFilesUntilUnreadable(_, _)
scanSkillFilesUntilUnreadable(files, i) ==
  IF i > Len(files) THEN <<>>
  ELSE LET file == files[i]
           rest == scanSkillFilesUntilUnreadable(files, i + 1)
           frontmatterResult == parseFrontmatter(file.content)
           validation == skillFrontmatterSchema(frontmatterResult.value)
       IN  IF Len(file.entry) = 0 THEN rest
           ELSE IF startsWith(file.entry, <<".">>) THEN rest
           ELSE IF ~file.readable THEN <<>>
           ELSE IF ~frontmatterResult.ok THEN rest
           ELSE IF ~validation.success THEN rest
           ELSE << [name |-> validation.data.name,
                    keywords |-> extractKeywords(file.content),
                    filePatterns |-> extractFilePatterns(frontmatterResult.value),
                    skillPath |-> file.entry] >> \o rest

\* The loop of discoverSkills over the SKILL.md files the glob yields.
RECURSIVE scanSkillFiles(_, _)
scanSkillFiles(files, i) ==
  IF i > Len(files) THEN <<>>
  ELSE LET file == files[i]
           rest == scanSkillFiles(files, i + 1)
           frontmatterResult == parseFrontmatter(file.content)
           validation == skillFrontmatterSchema(frontmatterResult.value)
       IN  IF Len(file.entry) = 0 THEN rest
           ELSE IF startsWith(file.entry, <<".">>) THEN rest
           ELSE IF ~file.readable THEN rest
           ELSE IF ~frontmatterResult.ok THEN rest
           ELSE IF ~validation.success THEN rest
           ELSE << [name |-> validation.data.name,
                    keywords |-> extractKeywords(file.content),
                    filePatterns |-> extractFilePatterns(frontmatterResult.value),
                    skillPath |-> file.entry] >> \o rest

discoverSkills(disk) ==
  IF ~disk.exists
    THEN [ok |-> FALSE, error |-> <<"Skills directory not found">>, value |-> <<>>]
    ELSE [ok |-> TRUE, error |-> <<>>, value |-> scanSkillFiles(disk.files, 1)]

\* cachedSkills is null until a scan succeeds.
NoCache == [loaded |-> FALSE, skills |-> <<>>]

\* discoverSkillsCached: the Result it returns, the value it leaves in
\* cachedSkills, and whether it scanned the directory.
discoverSkillsCached(cached, disk) ==
  IF cached.loaded
    THEN [result |-> [ok |-> TRUE, error |-> <<>>, value |-> cached.skills],
          cache |-> cached, scanned |-> FALSE]
    ELSE LET result == discoverSkills(disk)
         IN  [result |-> result,
              cache |-> IF result.ok
                          THEN [loaded |-> TRUE, skills |-> result.value]
                          ELSE cached,
              scanned |-> TRUE]

\* ------------------------------------------------------------------------
\* Skill matching (services/pattern-matcher.ts and confidence-scorer.ts)
\* ------------------------------------------------------------------------
\* A path matches a glob: "**" stands for any run of characters, "**/" also
\* for no directory at all, "*" for any run of characters other than "/".
RECURSIVE globMatch(_, _, _, _)
globMatch(pattern, i, path, j) ==
  IF i > Len(pattern) THEN j > Len(path)
  ELSE IF pattern[i] = "*" /\ i < Len(pattern) /\ pattern[i + 1] = "*" THEN
    \/ \E k \in j..(Len(path) + 1) : globMatch(pattern, i + 2, path, k)
    \/ /\ i + 2 <= Len(pattern)
       /\ pattern[i + 2] = "/"
       /\ globMatch(pattern, i + 3, path, j)
  ELSE IF pattern[i] = "*" THEN
    \E k \in j..(Len(path) + 1) :
      /\ \A m \in j..(k - 1) : path[m] # "/"
      /\ globMatch(pattern, i + 1, path, k)
  ELSE /\ j <= Len(path)
       /\ path[j] = pattern[i]
       /\ globMatch(pattern, i + 1, path, j + 1)

\* The semantic vocabulary of a skill: intent phrases beyond its keywords.
contentSignals(skill) ==
  IF skill.name = "convex-patterns" THEN {<<"w","e","b","h","o","o","k">>, <<"h","t","t","p"," ","a","c","t","i","o","n">>}
  ELSE IF skill.name = "security-patterns" THEN {<<"l","o","g","i","n">>}
  ELSE {}

keywordWeight == 40

fileWeight == 30

contentWeight == 30

\* The signals a skill declares in each category; a zero-length signal is
\* never a candidate.
declaredKeywords(skill) == {k \in {skill.keywords[i] : i \in 1..Len(skill.keywords)} : Len(k) > 0}

declaredFilePatterns(skill) ==
  {g \in {skill.filePatterns[i] : i \in 1..Len(skill.filePatterns)} : Len(g) > 0}

declaredContentSignals(skill) == {c \in contentSignals(skill) : Len(c) > 0}

\* Signal extractors: the matched signals of each category.
keywordHits(normalizedPrompt, skill) ==
  {k \in declaredKeywords(skill) : includes(normalizedPrompt, k)}

fileHits(openFiles, skill) ==
  {g \in declaredFilePatterns(skill) :
     \E f \in 1..Len(openFiles) : globMatch(g, 1, openFiles[f], 1)}

contentHits(normalizedPrompt, skill) ==
  {c \in declaredContentSignals(skill) : includes(normalizedPrompt, c)}

\* Math.round of the non-negative fraction num / den.
roundDiv(num, den) == (2 * num + den) \div (2 * den)

clamp(x, lo, hi) == IF x < lo THEN lo ELSE IF x > hi THEN hi ELSE x

\* The sum of the nominal weights, whether a category applies or not.
nominalWeight(cats) == cats[1].weight + cats[2].weight + cats[3].weight

\* The sum of the weights of the applicable categories: the weights are
\* renormalised over it.
applicableWeight(cats) ==
  (IF cats[1].applicable THEN cats[1].weight ELSE 0)
    + (IF cats[2].applicable THEN cats[2].weight ELSE 0)
    + (IF cats[3].applicable THEN cats[3].weight ELSE 0)

\* The percentage of a category: the share of its declared signals matched.
categoryScore(cat) ==
  IF cat.applicable THEN roundDiv(100 * cat.hits, cat.declared) ELSE 0

\* The category percentages added up, unweighted and unclamped.
summedConfidence(cats) ==
  categoryScore(cats[1]) + categoryScore(cats[2]) + categoryScore(cats[3])

\* The weighted sum of the category percentages over the applicable
\* categories, rounded to the nearest integer and clamped to 0..100.
weightedConfidence(cats) ==
  LET w(c) == IF cats[c].applicable THEN cats[c].weight ELSE 0
      d(c) == IF cats[c].applicable THEN cats[c].declared ELSE 1
      h(c) == IF cats[c].applicable THEN cats[c].hits ELSE 0
      total == applicableWeight(cats)
      num == 100 * (w(1) * h(1) * d(2) * d(3)
                    + w(2) * h(2) * d(1) * d(3)
                    + w(3) * h(3) * d(1) * d(2))
      den == total * d(1) * d(2) * d(3)
  IN  IF total = 0 THEN 0 ELSE clamp(roundDiv(num, den), 0, 100)

\* No skill is ever left out.
excludedNever(hits) == FALSE

\* A skill with no matched signal in any category is left out of the result.
excluded(hits) == hits.keywords = {} /\ hits.files = {} /\ hits.content = {}

\* The score of one skill.  A category is applicable when the call supplies
\* data for it (files: at least one open file) and the skill declares a
\* signal in it.
scoreSkill(normalizedPrompt, openFiles, skill) ==
  LET hits == [keywords |-> keywordHits(normalizedPrompt, skill),
               files |-> IF Len(openFiles) > 0 THEN fileHits(openFiles, skill) ELSE {},
               content |-> contentHits(normalizedPrompt, skill)]
      cats == << [weight |-> keywordWeight,
                  applicable |-> declaredKeywords(skill) # {},
                  hits |-> Cardinality(hits.keywords),
                  declared |-> Cardinality(declaredKeywords(skill))],
                 [weight |-> fileWeight,
                  applicable |-> Len(openFiles) > 0 /\ declaredFilePatterns(skill) # {},
                  hits |-> Cardinality(hits.files),
                  declared |-> Cardinality(declaredFilePatterns(skill))],
                 [weight |-> contentWeight,
                  applicable |-> declaredContentSignals(skill) # {},
                  hits |-> Cardinality(hits.content),
                  declared |-> Cardinality(declaredContentSignals(skill))] >>
  IN  [confidence |-> weightedConfidence(cats),
       excluded |-> excluded(hits),
       details |-> [keywordScore |-> categoryScore(cats[1]),
                    fileScore |-> categoryScore(cats[2]),
                    contentScore |-> categoryScore(cats[3])],
       matchedSignals |-> hits]

\* The scored skills that matched a signal, in catalog order.
RECURSIVE collectMatches(_, _, _, _)
collectMatches(normalizedPrompt, openFiles, skills, i) ==
  IF i > Len(skills) THEN <<>>
  ELSE LET scored == scoreSkill(normalizedPrompt, openFiles, skills[i])
           rest == collectMatches(normalizedPrompt, openFiles, skills, i + 1)
       IN  IF ~scored.excluded
             THEN << [skill |-> [name |-> skills[i].name,
                                 skillPath |-> skills[i].skillPath],
                      confidence |-> scored.confidence,
                      details |-> scored.details,
                      matchedSignals |-> scored.matchedSignals] >> \o rest
             ELSE rest

\* matchPromptToSkills(prompt, skills, {openFiles, workingDirectory}): the
\* matches, highest confidence first, ties in catalog order.
matchPromptToSkills(prompt, skills, openFiles) ==
  sortByConfidence(collectMatches(toLowerCase(prompt), openFiles, skills, 1))

\* ------------------------------------------------------------------------
\* get_relevant_skills
\* ------------------------------------------------------------------------
\* prompt: z.string().trim().min(1).max(10000); openFiles:
\* z.array(z.string()).optional().  (workingDirectory is an optional string
\* the handler only passes on.)
getRelevantSkillsInputSchema(input) ==
  LET promptResult == promptSchema(input) IN
  IF ~promptResult.success THEN promptResult
  ELSE IF input.openFiles.present /\ ~input.openFiles.isArray
    THEN [success |-> FALSE, issue |-> "invalid_type", data |-> <<>>]
  ELSE promptResult

\* The openFiles the handler passes to the matcher; undefined is no files.
openFilesOf(input) ==
  IF input.openFiles.present THEN input.openFiles.value ELSE <<>>

\* The value getRelevantSkills returns with the count taken from the matches.
getRelevantSkillsOutputOfMatches(skills, matches) ==
  [matches |-> matches, totalSkillsScanned |-> Len(matches)]

\* The value of an ok getRelevantSkills result: the matches and the length
\* of the catalog discoverSkillsCached returned.
getRelevantSkillsOutput(skills, matches) ==
  [matches |-> matches, totalSkillsScanned |-> Len(skills)]

\* ------------------------------------------------------------------------
\* get_skill_resources
\* ------------------------------------------------------------------------
\* String.prototype.endsWith
endsWith(s, suffix) ==
  Len(suffix) <= Len(s) /\ SubSeq(s, Len(s) - Len(suffix) + 1, Len(s)) = suffix

\* extractTopic: drop a final ".md", turn every "-" into a blank; digits stay.
extractTopic(fileName) ==
  LET stem == IF endsWith(fileName, <<".","m","d">>)
                THEN SubSeq(fileName, 1, Len(fileName) - 3) ELSE fileName
  IN  [i \in 1..Len(stem) |-> IF stem[i] = "-" THEN " " ELSE stem[i]]

\* skillName: z.string().trim().min(1); topic: z.string().trim().optional();
\* keywords: z.array(z.string()).optional().
getSkillResourcesInputSchema(input) ==
  IF ~input.skillName.isString \/ Len(trim(input.skillName.value)) < 1
       \/ (input.topic.present /\ ~input.topic.isString)
       \/ (input.keywords.present /\ ~input.keywords.isArray)
    THEN [success |-> FALSE,
          issue |-> IF input.skillName.isString /\ Len(trim(input.skillName.value)) < 1
                      THEN "too_small" ELSE "invalid_type",
          data |-> [skillName |-> <<>>,
                    topic |-> [present |-> FALSE, value |-> <<>>],
                    keywords |-> [present |-> FALSE, value |-> <<>>]]]
    ELSE [success |-> TRUE, issue |-> "none",
          data |-> [skillName |-> trim(input.skillName.value),
                    topic |-> [present |-> input.topic.present,
                               value |-> trim(input.topic.value)],
                    keywords |-> [present |-> input.keywords.present,
                                  value |-> input.keywords.value]]]

baseRelevance == 50

topicBonus == 40

keywordBonus == 10

maxRelevance == 100

\* The loop of calculateRelevance over the keywords: the relevance and the
\* matched terms after keywords i..Len(keywords).
RECURSIVE addKeywords(_, _, _, _)
addKeywords(normalizedTopic, keywords, i, acc) ==
  IF i > Len(keywords) THEN acc
  ELSE IF includes(normalizedTopic, toLowerCase(keywords[i]))
    THEN addKeywords(normalizedTopic, keywords, i + 1,
                     [relevance |-> acc.relevance + keywordBonus,
                      matchedTerms |-> Append(acc.matchedTerms, <<"keyword", keywords[i]>>)])
    ELSE addKeywords(normalizedTopic, keywords, i + 1, acc)

\* calculateRelevance without the cap at 100.
calculateRelevanceUncapped(resource, topic, keywords) ==
  LET normalizedTopic == toLowerCase(resource.topic)
      topicMatches == /\ topic.present
                      /\ Len(topic.value) > 0
                      /\ includes(normalizedTopic, toLowerCase(topic.value))
      afterTopic == IF topicMatches
                      THEN [relevance |-> baseRelevance + topicBonus,
                            matchedTerms |-> << <<"topic", topic.value>> >>]
                      ELSE [relevance |-> baseRelevance, matchedTerms |-> <<>>]
      afterKeywords == IF keywords.present /\ Len(keywords.value) > 0
                         THEN addKeywords(normalizedTopic, keywords.value, 1, afterTopic)
                         ELSE afterTopic
  IN  [relevance |-> afterKeywords.relevance,
       reasoning |-> afterKeywords.matchedTerms]

\* calculateRelevance(resource, topic?, keywords?); the reasoning is the list
\* of matched terms the text is built from (empty: "General resource").
calculateRelevance(resource, topic, keywords) ==
  LET normalizedTopic == toLowerCase(resource.topic)
      topicMatches == /\ topic.present
                      /\ Len(topic.value) > 0
                      /\ includes(normalizedTopic, toLowerCase(topic.value))
      afterTopic == IF topicMatches
                      THEN [relevance |-> baseRelevance + topicBonus,
                            matchedTerms |-> << <<"topic", topic.value>> >>]
                      ELSE [relevance |-> baseRelevance, matchedTerms |-> <<>>]
      afterKeywords == IF keywords.present /\ Len(keywords.value) > 0
                         THEN addKeywords(normalizedTopic, keywords.value, 1, afterTopic)
                         ELSE afterTopic
  IN  [relevance |-> Min(maxRelevance, afterKeywords.relevance),
       reasoning |-> afterKeywords.matchedTerms]

\* The loop of discoverResources over the directory entries: regular,
\* non-hidden files whose name ends in ".md".
RECURSIVE collectResources(_, _, _)
collectResources(entries, skillName, i) ==
  IF i > Len(entries) THEN <<>>
  ELSE LET e == entries[i]
           rest == collectResources(entries, skillName, i + 1)
       IN  IF ~e.statOk THEN rest
           ELSE IF ~e.isFile \/ startsWith(e.name, <<".">>) THEN rest
           ELSE IF ~endsWith(e.name, <<".","m","d">>) THEN rest
           ELSE << [fileName |-> e.name, topic |-> extractTopic(e.name),
                    skillName |-> skillName] >> \o rest

discoverResources(dir, skillName) ==
  IF ~dir.resourcesExists THEN [ok |-> TRUE, error |-> <<>>, value |-> <<>>]
  ELSE IF ~dir.listable THEN [ok |-> FALSE, error |-> <<"readdir failed">>, value |-> <<>>]
  ELSE [ok |-> TRUE, error |-> <<>>, value |-> collectResources(dir.entries, skillName, 1)]

minRelevance == 40

aboveMinRelevance(r) == r.relevance > minRelevance

\* Array.prototype.sort with (a, b) => b.relevance - a.relevance: stable,
\* highest relevance first.
RECURSIVE sortByRelevance(_)
sortByRelevance(recs) ==
  IF Len(recs) <= 1 THEN recs
  ELSE LET head == recs[1]
           sortedTail == sortByRelevance(Tail(recs))
           before == {k \in 0..Len(sortedTail) :
                        \A j \in 1..k : sortedTail[j].relevance > head.relevance}
           pos == CHOOSE k \in before : \A k2 \in before : k2 <= k
       IN  SubSeq(sortedTail, 1, pos) \o <<head>>
             \o SubSeq(sortedTail, pos + 1, Len(sortedTail))

\* getSkillResources(input, skillsDir), with `dir` the state of the skill's
\* directory on disk.
getSkillResources(input, dir) ==
  LET validation == getSkillResourcesInputSchema(input) IN
  IF ~validation.success THEN InvalidInputError(validation)
  ELSE IF ~dir.skillExists
    THEN [ok |-> FALSE, error |-> <<"Skill not found", validation.data.skillName>>]
  ELSE LET resourcesResult == discoverResources(dir, validation.data.skillName) IN
    IF ~resourcesResult.ok THEN [ok |-> FALSE, error |-> resourcesResult.error]
    ELSE LET resources == resourcesResult.value
             recommendations ==
               [i \in 1..Len(resources) |->
                  LET scored == calculateRelevance(resources[i], validation.data.topic,
                                                   validation.data.keywords)
                  IN  [resource |-> resources[i],
                       relevance |-> scored.relevance,
                       reasoning |-> scored.reasoning]]
         IN  [ok |-> TRUE,
              value |-> [recommendations |->
                           SelectSeq(sortByRelevance(recommendations), aboveMinRelevance),
                         totalResources |-> Len(resources)]]

\* ------------------------------------------------------------------------
\* Session tracker (services/session-tracker.ts)
\* ------------------------------------------------------------------------
\* CHECKPOINT_THRESHOLDS of types/session-schemas.ts, with the values the
\* comments of calculateCheckpointStatus give.
CHECKPOINT_THRESHOLDS ==
  [URGENT |-> [commits |-> 5, filesModified |-> 20],
   RECOMMENDED |-> [commits |-> 3, filesModified |-> 10],
   SUGGESTED |-> [commits |-> 2, filesModified |-> 5]]

\* calculateCheckpointStatus without the completed-work condition.
calculateCheckpointStatusByCounts(tracker) ==
  IF \/ tracker.commitsSinceCheckpoint >= CHECKPOINT_THRESHOLDS.URGENT.commits
     \/ Len(tracker.filesModified) >= CHECKPOINT_THRESHOLDS.URGENT.filesModified
    THEN "urgent"
  ELSE IF \/ tracker.commitsSinceCheckpoint >= CHECKPOINT_THRESHOLDS.RECOMMENDED.commits
          \/ Len(tracker.filesModified) >= CHECKPOINT_THRESHOLDS.RECOMMENDED.filesModified
    THEN "recommended"
  ELSE IF \/ tracker.commitsSinceCheckpoint >= CHECKPOINT_THRESHOLDS.SUGGESTED.commits
          \/ Len(tracker.filesModified) >= CHECKPOINT_THRESHOLDS.SUGGESTED.filesModified
    THEN "suggested"
  ELSE "none"

calculateCheckpointStatus(tracker) ==
  IF \/ tracker.commitsSinceCheckpoint >= CHECKPOINT_THRESHOLDS.URGENT.commits
     \/ Len(tracker.filesModified) >= CHECKPOINT_THRESHOLDS.URGENT.filesModified
    THEN "urgent"
  ELSE IF \/ tracker.commitsSinceCheckpoint >= CHECKPOINT_THRESHOLDS.RECOMMENDED.commits
          \/ Len(tracker.filesModified) >= CHECKPOINT_THRESHOLDS.RECOMMENDED.filesModified
    THEN "recommended"
  ELSE IF \/ tracker.commitsSinceCheckpoint >= CHECKPOINT_THRESHOLDS.SUGGESTED.commits
          \/ Len(tracker.filesModified) >= CHECKPOINT_THRESHOLDS.SUGGESTED.filesModified
          \/ Len(tracker.completedSinceCheckpoint) > 0
    THEN "suggested"
  ELSE "none"

\* The tracker loadSessionTracker makes up when there is no state file.
newTracker(now) ==
  [sessionStart |-> now,
   lastCheckpoint |-> now,
   currentPhase |-> "Unknown",
   completedSinceCheckpoint |-> <<>>,
   inProgress |-> "Session started",
   filesModified |-> <<>>,
   commitsSinceCheckpoint |-> 0,
   checkpointStatus |-> "none",
   lastCommit |-> <<>>]

\* SESSION_TRACKER.json: absent, not JSON ("corrupt"), JSON that fails
\* sessionTrackerSchema ("invalid"), or a tracker.
NoStateFile == [status |-> "absent"]

\* loadSessionTracker that writes the tracker it makes up.
loadSessionTrackerCreating(file, now) ==
  IF file.status = "absent"
    THEN [result |-> [ok |-> TRUE, value |-> newTracker(now)],
          file |-> [status |-> "valid", tracker |-> newTracker(now)]]
  ELSE IF file.status = "corrupt"
    THEN [result |-> [ok |-> FALSE, error |-> <<"JSON Parse error">>], file |-> file]
  ELSE IF file.status = "invalid"
    THEN [result |-> [ok |-> FALSE, error |-> <<"Invalid session tracker format">>],
          file |-> file]
  ELSE [result |-> [ok |-> TRUE, value |-> file.tracker], file |-> file]

\* loadSessionTracker: the Result it returns and the state file it leaves.
loadSessionTracker(file, now) ==
  IF file.status = "absent"
    THEN [result |-> [ok |-> TRUE, value |-> newTracker(now)], file |-> file]
  ELSE IF file.status = "corrupt"
    THEN [result |-> [ok |-> FALSE, error |-> <<"JSON Parse error">>], file |-> file]
  ELSE IF file.status = "invalid"
    THEN [result |-> [ok |-> FALSE, error |-> <<"Invalid session tracker format">>],
          file |-> file]
  ELSE [result |-> [ok |-> TRUE, value |-> file.tracker], file |-> file]

\* saveSessionTracker: Bun.write either replaces the state file or throws.
saveSessionTracker(tracker, file, written) ==
  IF written
    THEN [result |-> [ok |-> TRUE], file |-> [status |-> "valid", tracker |-> tracker]]
    ELSE [result |-> [ok |-> FALSE, error |-> <<"EACCES: permission denied">>],
          file |-> file]

\* calculateSessionDuration, in clock ticks.
calculateSessionDuration(startTime, now) == now - startTime

shouldCreateCheckpoint(tracker, now) ==
  LET status == calculateCheckpointStatus(tracker)
  IN  [status |-> status,
       shouldSave |-> (status = "recommended" \/ status = "urgent"),
       stats |-> [sessionDuration |-> calculateSessionDuration(tracker.sessionStart, now),
                  commitsSinceCheckpoint |-> tracker.commitsSinceCheckpoint,
                  filesModified |-> Len(tracker.filesModified),
                  workCompleted |-> Len(tracker.completedSinceCheckpoint)]]

\* resetCheckpoint that leaves the list of modified files in place.
resetCheckpointKeepingFiles(tracker, now) ==
  [tracker EXCEPT !.lastCheckpoint = now,
                  !.completedSinceCheckpoint = <<>>,
                  !.commitsSinceCheckpoint = 0,
                  !.checkpointStatus = "none"]

resetCheckpoint(tracker, now) ==
  [tracker EXCEPT !.lastCheckpoint = now,
                  !.completedSinceCheckpoint = <<>>,
                  !.filesModified = <<>>,
                  !.commitsSinceCheckpoint = 0,
                  !.checkpointStatus = "none"]

\* checkShouldCreateCheckpoint: its Result, the tracker it loaded and the
\* state file it leaves.
checkShouldCreateCheckpoint(file, now) ==
  LET loadResult == loadSessionTracker(file, now)
  IN  IF ~loadResult.result.ok
        THEN [result |-> loadResult.result, loaded |-> loadResult.result,
              file |-> loadResult.file]
        ELSE [result |-> [ok |-> TRUE,
                          value |-> shouldCreateCheckpoint(loadResult.result.value, now)],
              loaded |-> loadResult.result,
              file |-> loadResult.file]

\* createContinuationBriefInputSchema: reason, contextToLoad, completedWork
\* and nextSteps are required.
createContinuationBriefInputSchema(input) ==
  IF input.hasReason /\ input.hasLists
    THEN [success |-> TRUE, issue |-> "none"]
    ELSE [success |-> FALSE, issue |-> "invalid_type"]

\* updateSessionTrackerInputSchema: every field is optional; a field of the
\* wrong type is rejected.
updateSessionTrackerInputSchema(input) ==
  IF input.wellTyped
    THEN [success |-> TRUE, issue |-> "none"]
    ELSE [success |-> FALSE, issue |-> "invalid_type"]

\* tracker.filesModified.includes(f)
includesFile(files, f) == \E i \in 1..Len(files) : files[i] = f

\* The update of updateSessionTracker that keeps the checkpoint status it
\* loaded.  In an input, a string that is absent or empty is "", a commit
\* hash or a list that is absent or empty is <<>>.
applyUpdateKeepingStatus(input, loaded) ==
  LET isNew(f) == ~includesFile(loaded.filesModified, f)
      newFiles == SelectSeq(input.filesModified, isNew)
  IN  [loaded EXCEPT
         !.currentPhase = IF input.currentPhase # "" THEN input.currentPhase ELSE @,
         !.completedSinceCheckpoint =
            IF input.completedWork # <<>> THEN Append(@, input.completedWork) ELSE @,
         !.inProgress = IF input.inProgress # "" THEN input.inProgress ELSE @,
         !.filesModified = IF Len(input.filesModified) > 0 THEN @ \o newFiles ELSE @,
         !.commitsSinceCheckpoint = IF input.commitMade THEN @ + 1 ELSE @,
         !.lastCommit = IF input.lastCommit # <<>> THEN input.lastCommit ELSE @]

\* updateSessionTracker between its load and its save: the fields given are
\* applied to the loaded tracker and the checkpoint status is recalculated.
applyUpdate(input, loaded) ==
  LET isNew(f) == ~includesFile(loaded.filesModified, f)
      newFiles == SelectSeq(input.filesModified, isNew)
      updated ==
        [loaded EXCEPT
           !.currentPhase = IF input.currentPhase # "" THEN input.currentPhase ELSE @,
           !.completedSinceCheckpoint =
              IF input.completedWork # <<>> THEN Append(@, input.completedWork) ELSE @,
           !.inProgress = IF input.inProgress # "" THEN input.inProgress ELSE @,
           !.filesModified = IF Len(input.filesModified) > 0 THEN @ \o newFiles ELSE @,
           !.commitsSinceCheckpoint = IF input.commitMade THEN @ + 1 ELSE @,
           !.lastCommit = IF input.lastCommit # <<>> THEN input.lastCommit ELSE @]
  IN  [updated EXCEPT !.checkpointStatus = calculateCheckpointStatus(updated)]

\* updateSessionTracker up to its save: a failed Result, or the tracker it
\* is about to save.
updateSessionTrackerLoad(input, file, now) ==
  LET validation == updateSessionTrackerInputSchema(input)
      loadResult == loadSessionTracker(file, now)
  IN  IF ~validation.success
        THEN [result |-> InvalidInputError(validation), loaded |-> [ok |-> FALSE],
              tracker |-> newTracker(0), file |-> file]
      ELSE IF ~loadResult.result.ok
        THEN [result |-> loadResult.result, loaded |-> loadResult.result,
              tracker |-> newTracker(0), file |-> loadResult.file]
      ELSE [result |-> [ok |-> TRUE], loaded |-> loadResult.result,
            tracker |-> applyUpdate(input, loadResult.result.value),
            file |-> loadResult.file]

\* updateSessionTracker from its save on: the Result it returns and the
\* state file it leaves.
updateSessionTrackerSave(tracker, file, written) ==
  LET saveResult == saveSessionTracker(tracker, file, written)
  IN  IF ~saveResult.result.ok
        THEN [result |-> saveResult.result, file |-> saveResult.file]
        ELSE [result |-> [ok |-> TRUE,
                          value |-> [message |-> "Session tracker updated successfully",
                                     checkpointStatus |-> tracker.checkpointStatus]],
              file |-> saveResult.file]

\* updateSessionTracker run without interruption: its Result, the tracker
\* it loaded and the state file it leaves.
updateSessionTracker(input, file, now, written) ==
  LET load == updateSessionTrackerLoad(input, file, now)
      save == updateSessionTrackerSave(load.tracker, load.file, written)
  IN  IF ~load.result.ok
        THEN [result |-> load.result, loaded |-> load.loaded, file |-> load.file]
        ELSE [result |-> save.result, loaded |-> load.loaded, file |-> save.file]

\* What a call that throws leaves in place of a Result.
Thrown(message) == [ok |-> FALSE, error |-> <<message>>]

\* createContinuationBrief on a project directory: its Result or the
\* exception it throws, the tracker it loaded, whether the reset tracker was
\* saved, and the directory it leaves.  dirCreated says whether mkdirSync
\* succeeds when archive/ is missing; briefWritten and trackerWritten say
\* whether the two Bun.write calls succeed.
createContinuationBrief(input, root, now, dirCreated, briefWritten, trackerWritten) ==
  LET validation == createContinuationBriefInputSchema(input)
      trackerResult == loadSessionTracker(root.stateFile, now)
      saveResult == saveSessionTracker(resetCheckpoint(trackerResult.result.value, now),
                                       trackerResult.file, trackerWritten)
      loadedRoot == [root EXCEPT !.stateFile = trackerResult.file]
  IN  IF ~validation.success
        THEN [result |-> InvalidInputError(validation), threw |-> FALSE,
              loaded |-> [ok |-> FALSE], saved |-> FALSE, root |-> root]
      ELSE IF ~trackerResult.result.ok
        THEN [result |-> trackerResult.result, threw |-> FALSE,
              loaded |-> trackerResult.result, saved |-> FALSE, root |-> loadedRoot]
      ELSE IF ~root.archiveDir /\ ~dirCreated
        THEN [result |-> Thrown("EACCES: permission denied, mkdir"), threw |-> TRUE,
              loaded |-> trackerResult.result, saved |-> FALSE, root |-> loadedRoot]
      ELSE IF ~briefWritten
        THEN [result |-> [ok |-> FALSE, error |-> <<"EACCES: permission denied">>],
              threw |-> FALSE,
              loaded |-> trackerResult.result, saved |-> FALSE,
              root |-> [loadedRoot EXCEPT !.archiveDir = TRUE]]
      ELSE [result |-> [ok |-> TRUE, value |-> [briefPath |-> <<"archive", now>>]],
            threw |-> FALSE,
            loaded |-> trackerResult.result,
            saved |-> saveResult.result.ok,
            root |-> [stateFile |-> saveResult.file,
                      archiveDir |-> TRUE,
                      archive |-> root.archive \cup {now}]]

\* ------------------------------------------------------------------------
\* Error text for the client (index.ts)
\* ------------------------------------------------------------------------
\* An Error is the name of its constructor, whether it is an instance of
\* SecurityError (a subclass is one under another name), and its message.

\* sanitizeErrorMessage whose fallback repeats the message of the error.
sanitizeErrorMessageEchoing(toolName, error) ==
  IF error.name = "SecurityError"
    THEN <<"A","c","c","e","s","s"," ","d","e","n","i","e","d",":"," ","I","n","v","a","l","i","d"," ","p","a","t","h"," ","o","r"," ","p","e","r","m","i","s","s","i","o","n"," ","e","r","r","o","r">>
  ELSE IF \/ includes(error.message, <<"n","o","t"," ","f","o","u","n","d">>)
          \/ includes(error.message, <<"d","o","e","s"," ","n","o","t"," ","e","x","i","s","t">>)
    THEN toolName \o <<" ","f","a","i","l","e","d",":"," ","R","e","s","o","u","r","c","e"," ","n","o","t"," ","f","o","u","n","d">>
  ELSE IF includes(error.message, <<"I","n","v","a","l","i","d"," ","i","n","p","u","t">>)
    THEN toolName \o <<" ","f","a","i","l","e","d",":"," ","I","n","v","a","l","i","d"," ","i","n","p","u","t"," ","f","o","r","m","a","t">>
  ELSE toolName \o <<" ","f","a","i","l","e","d",":"," ">> \o error.message

\* sanitizeErrorMessage of index.ts: the class is tested by constructor name.
sanitizeErrorMessage(toolName, error) ==
  IF error.name = "SecurityError"
    THEN <<"A","c","c","e","s","s"," ","d","e","n","i","e","d",":"," ","I","n","v","a","l","i","d"," ","p","a","t","h"," ","o","r"," ","p","e","r","m","i","s","s","i","o","n"," ","e","r","r","o","r">>
  ELSE IF \/ includes(error.message, <<"n","o","t"," ","f","o","u","n","d">>)
          \/ includes(error.message, <<"d","o","e","s"," ","n","o","t"," ","e","x","i","s","t">>)
    THEN toolName \o <<" ","f","a","i","l","e","d",":"," ","R","e","s","o","u","r","c","e"," ","n","o","t"," ","f","o","u","n","d">>
  ELSE IF includes(error.message, <<"I","n","v","a","l","i","d"," ","i","n","p","u","t">>)
    THEN toolName \o <<" ","f","a","i","l","e","d",":"," ","I","n","v","a","l","i","d"," ","i","n","p","u","t"," ","f","o","r","m","a","t">>
  ELSE toolName \o <<" ","f","a","i","l","e","d",":"," ","P","l","e","a","s","e"," ","c","h","e","c","k"," ","y","o","u","r"," ","i","n","p","u","t"," ","a","n","d"," ","t","r","y"," ","a","g","a","i","n">>

\* getSanitizedErrorMessage of the earlier index.ts: the class is tested by
\* instanceof.
getSanitizedErrorMessage(toolName, error) ==
  IF error.isSecurityError
    THEN <<"A","c","c","e","s","s"," ","d","e","n","i","e","d",":"," ","I","n","v","a","l","i","d"," ","p","a","t","h"," ","o","r"," ","p","e","r","m","i","s","s","i","o","n"," ","e","r","r","o","r">>
  ELSE IF \/ includes(error.message, <<"n","o","t"," ","f","o","u","n","d">>)
          \/ includes(error.message, <<"d","o","e","s"," ","n","o","t"," ","e","x","i","s","t">>)
    THEN toolName \o <<" ","f","a","i","l","e","d",":"," ","R","e","s","o","u","r","c","e"," ","n","o","t"," ","f","o","u","n","d">>
  ELSE IF includes(error.message, <<"I","n","v","a","l","i","d"," ","i","n","p","u","t">>)
    THEN toolName \o <<" ","f","a","i","l","e","d",":"," ","I","n","v","a","l","i","d"," ","i","n","p","u","t"," ","f","o","r","m","a","t">>
  ELSE toolName \o <<" ","f","a","i","l","e","d",":"," ","P","l","e","a","s","e"," ","c","h","e","c","k"," ","y","o","u","r"," ","i","n","p","u","t"," ","a","n","d"," ","t","r","y"," ","a","g","a","i","n">>

\* The names the tools are registered under.
ToolNames ==
  { <<"g","e","t","_","r","e","l","e","v","a","n","t","_","s","k","i","l","l","s">>,
    <<"s","u","g","g","e","s","t","_","a","g","e","n","t">>,
    <<"g","e","t","_","s","k","i","l","l","_","r","e","s","o","u","r","c","e","s">>,
    <<"u","p","d","a","t","e","_","s","e","s","s","i","o","n","_","t","r","a","c","k","e","r">>,
    <<"s","h","o","u","l","d","_","c","r","e","a","t","e","_","c","h","e","c","k","p","o","i","n","t">>,
    <<"c","r","e","a","t","e","_","c","o","n","t","i","n","u","a","t","i","o","n","_","b","r","i","e","f">> }

\* Largest number of fragments joined into one error message.
MaxErrorWords == 2

\* A path of the server's file system, as file errors quote it.
ServerPath == <<"/","h","o","m","e","/","d","e","v","/","a","p","p","/",".","c","l","a","u","d","e","/","S","E","S","S","I","O","N","_","T","R","A","C","K","E","R",".","j","s","o","n">>

ErrorVocab ==
  { <<"I","n","v","a","l","i","d"," ","i","n","p","u","t",":">>,
    <<"n","o","t"," ","f","o","u","n","d">>,
    <<"d","o","e","s"," ","n","o","t"," ","e","x","i","s","t">>,
    ServerPath }

ErrorMessages == {<<>>} \cup Phrases(ErrorVocab, MaxErrorWords)

ErrorKinds ==
  {[name |-> "Error", isSecurityError |-> FALSE],
    [name |-> "SecurityError", isSecurityError |-> TRUE],
    [name |-> "PathTraversalError", isSecurityError |-> TRUE]}

ToolErrors ==
  {[name |-> k.name, isSecurityError |-> k.isSecurityError, message |-> msg] :
      k \in ErrorKinds, msg \in ErrorMessages}

\* The error responses of the tool handlers, in both versions of index.ts.
ErrorResponses ==
  {[toolName |-> n, error |-> e,
    text |-> sanitizeErrorMessage(n, e),
    earlierText |-> getSanitizedErrorMessage(n, e)] : n \in ToolNames, e \in ToolErrors}

\* ------------------------------------------------------------------------
\* Inputs of the skill tools
\* ------------------------------------------------------------------------
\* Largest number of vocabulary phrases joined into one skill prompt.
MaxSkillWords == 1

\* Largest number of open files in one call.
MaxOpenFiles == 1

SkillVocab ==
  { <<"C","o","n","v","e","x"," ","m","u","t","a","t","i","o","n">>,
    <<"w","e","b","h","o","o","k">>,
    <<"C","o","n","v","e","x"," ","M","u","t","a","t","i","o","n"," ","w","e","b","h","o","o","k"," ","H","T","T","P"," ","a","c","t","i","o","n">>,
    <<"A","u","t","h">>,
    <<"l","o","g","i","n"," ","s","e","c","u","r","i","t","y"," ","a","u","t","h">>,
    <<"c","o","o","k","i","n","g">> }

FilePaths == { <<"c","o","n","v","e","x","/","u","s","e","r","s",".","t","s">>, <<"R","E","A","D","M","E",".","m","d">> }

RECURSIVE FileLists(_)
FileLists(n) ==
  IF n = 0 THEN {<<>>}
  ELSE LET shorter == FileLists(n - 1)
       IN  shorter \cup {l \o <<f>> : l \in {s \in shorter : Len(s) = n - 1}, f \in FilePaths}

\* openFiles: absent, not an array, or an array of paths.
OpenFilesOptions ==
  {[present |-> FALSE, isArray |-> FALSE, value |-> <<>>],
   [present |-> TRUE, isArray |-> FALSE, value |-> <<>>]}
    \cup {[present |-> TRUE, isArray |-> TRUE, value |-> l] : l \in FileLists(MaxOpenFiles)}

SkillInputs ==
  {[kind |-> "string", prompt |-> q, openFiles |-> o] :
      q \in Phrases(SkillVocab, MaxSkillWords), o \in OpenFilesOptions}
    \cup {[kind |-> i.kind, prompt |-> i.prompt, openFiles |-> o] :
            i \in StringInputs(EdgePrompts) \cup NonStringInputs,
            o \in {x \in OpenFilesOptions : ~x.present}}

\* The skills directory as a scan finds it: missing, empty, or holding
\* SKILL.md files.
MissingDisk == [exists |-> FALSE, files |-> <<>>]

EmptyDisk == [exists |-> TRUE, files |-> <<>>]

FullDisk ==
  [exists |-> TRUE,
   files |-> <<
     [entry |-> <<"c","o","n","v","e","x","-","p","a","t","t","e","r","n","s">>, readable |-> TRUE,
       content |-> [frontmatter |-> [block |-> "ok", name |-> "convex-patterns", description |-> "Convex backend patterns",
                                     hasInclude |-> TRUE, include |-> <<[isString |-> TRUE, value |-> <<"c","o","n","v","e","x","/","*","*">>], [isString |-> TRUE, value |-> <<>>]>>],
                    hasKeywordsLine |-> TRUE, keywordsLine |-> <<" ","C","o","n","v","e","x",","," ","M","u","t","a","t","i","o","n"," ",",">>]],
     [entry |-> <<".","d","r","a","f","t","s">>, readable |-> TRUE,
       content |-> [frontmatter |-> [block |-> "ok", name |-> "drafts", description |-> "Hidden drafts",
                                     hasInclude |-> FALSE, include |-> <<>>],
                    hasKeywordsLine |-> TRUE, keywordsLine |-> <<"c","o","n","v","e","x">>]],
     [entry |-> <<"s","e","c","u","r","i","t","y","-","p","a","t","t","e","r","n","s">>, readable |-> TRUE,
       content |-> [frontmatter |-> [block |-> "ok", name |-> "security-patterns", description |-> "Security patterns",
                                     hasInclude |-> FALSE, include |-> <<>>],
                    hasKeywordsLine |-> TRUE, keywordsLine |-> <<"a","u","t","h",","," ","s","e","c","u","r","i","t","y",","," ","A","U","T","H">>]],
     [entry |-> <<"b","r","o","k","e","n">>, readable |-> TRUE,
       content |-> [frontmatter |-> [block |-> "yamlError", name |-> "broken", description |-> "Broken frontmatter",
                                     hasInclude |-> FALSE, include |-> <<>>],
                    hasKeywordsLine |-> TRUE, keywordsLine |-> <<"c","o","n","v","e","x">>]],
     [entry |-> <<"u","n","n","a","m","e","d">>, readable |-> TRUE,
       content |-> [frontmatter |-> [block |-> "ok", name |-> "", description |-> "No name in the frontmatter",
                                     hasInclude |-> FALSE, include |-> <<>>],
                    hasKeywordsLine |-> TRUE, keywordsLine |-> <<"c","o","n","v","e","x">>]],
     [entry |-> <<"u","n","r","e","a","d","a","b","l","e">>, readable |-> FALSE,
       content |-> [frontmatter |-> [block |-> "ok", name |-> "unreadable", description |-> "Cannot be read",
                                     hasInclude |-> FALSE, include |-> <<>>],
                    hasKeywordsLine |-> TRUE, keywordsLine |-> <<"c","o","n","v","e","x">>]],
     [entry |-> <<"d","o","c","s">>, readable |-> TRUE,
       content |-> [frontmatter |-> [block |-> "ok", name |-> "docs", description |-> "Documentation",
                                     hasInclude |-> TRUE, include |-> <<[isString |-> TRUE, value |-> <<"*","*","/","*",".","m","d">>], [isString |-> FALSE, value |-> <<>>]>>],
                    hasKeywordsLine |-> FALSE, keywordsLine |-> <<>>]],
     [entry |-> <<"n","o","t","e","s">>, readable |-> TRUE,
       content |-> [frontmatter |-> [block |-> "ok", name |-> "notes", description |-> "No signals at all",
                                     hasInclude |-> FALSE, include |-> <<>>],
                    hasKeywordsLine |-> TRUE, keywordsLine |-> <<" ",","," ">>]] >>]

SmallDisk ==
  [exists |-> TRUE,
   files |-> <<
     [entry |-> <<"c","o","n","v","e","x","-","p","a","t","t","e","r","n","s">>, readable |-> TRUE,
       content |-> [frontmatter |-> [block |-> "ok", name |-> "convex-patterns", description |-> "Convex backend patterns",
                                     hasInclude |-> TRUE, include |-> <<[isString |-> TRUE, value |-> <<"c","o","n","v","e","x","/","*",".","t","s">>]>>],
                    hasKeywordsLine |-> TRUE, keywordsLine |-> <<"c","o","n","v","e","x">>]],
     [entry |-> <<"s","e","c","u","r","i","t","y","-","p","a","t","t","e","r","n","s">>, readable |-> TRUE,
       content |-> [frontmatter |-> [block |-> "ok", name |-> "security-patterns", description |-> "Security patterns",
                                     hasInclude |-> FALSE, include |-> <<>>],
                    hasKeywordsLine |-> FALSE, keywordsLine |-> <<>>]] >>]

Disks == {MissingDisk, EmptyDisk, FullDisk, SmallDisk}

\* The catalogs a successful scan can return.
Catalogs == {discoverSkills(disk).value : disk \in {d \in Disks : d.exists}}

AcceptedSkillInputs == {i \in SkillInputs : getRelevantSkillsInputSchema(i).success}

\* The calls of getRelevantSkills that validation rejects.
RejectedSkillCalls ==
  {[input |-> i, result |-> InvalidInputError(getRelevantSkillsInputSchema(i))] :
     i \in SkillInputs \ AcceptedSkillInputs}

\* The calls of matchPromptToSkills the model makes, by catalog.
SkillMatchCalls ==
  {[skills |-> c,
    calls |-> {[input |-> i,
                matches |-> matchPromptToSkills(getRelevantSkillsInputSchema(i).data,
                                                c, openFilesOf(i))] :
                 i \in AcceptedSkillInputs}] : c \in Catalogs}

\* Largest number of skill directories in a scanned skills directory.
MaxSkillDirs == 2

\* A copy of the convex-patterns directory under another directory name.
CopiedSkillFile ==
  [entry |-> <<"c","o","n","v","e","x","-","c","o","p","y">>, readable |-> TRUE,
   content |-> [frontmatter |-> [block |-> "ok", name |-> "convex-patterns", description |-> "Copied skill",
                                 hasInclude |-> FALSE, include |-> <<>>],
                hasKeywordsLine |-> TRUE, keywordsLine |-> <<"C","o","n","v","e","x",",",","," ","D","B"," ">>]]

\* The SKILL.md files a skills directory is made of.
SkillFilePool ==
  {FullDisk.files[i] : i \in 1..Len(FullDisk.files)}
    \cup {SmallDisk.files[i] : i \in 1..Len(SmallDisk.files)}
    \cup {CopiedSkillFile}

\* Listings of up to n directories, no directory name twice.
RECURSIVE SkillFileLists(_)
SkillFileLists(n) ==
  IF n = 0 THEN {<<>>}
  ELSE LET shorter == SkillFileLists(n - 1)
       IN  shorter \cup
             {p[1] \o <<p[2]>> :
                p \in {q \in {l \in shorter : Len(l) = n - 1} \X SkillFilePool :
                         \A i \in 1..Len(q[1]) : q[1][i].entry # q[2].entry}}

\* The skills directories discoverSkills is run on.
ScanDisks ==
  {MissingDisk} \cup {[exists |-> TRUE, files |-> l] : l \in SkillFileLists(MaxSkillDirs)}

DiscoverSkillsCalls == {[input |-> d, result |-> discoverSkills(d)] : d \in ScanDisks}

\* ------------------------------------------------------------------------
\* Inputs of get_skill_resources
\* ------------------------------------------------------------------------
\* Longest keywords list of one call.
MaxKeywords == 2

SkillNames ==
  {[isString |-> TRUE, value |-> <<" ","r","e","a","c","t"," ">>],
   [isString |-> TRUE, value |-> <<" ">>],
   [isString |-> FALSE, value |-> <<>>]}

TopicOptions ==
  {[present |-> FALSE, isString |-> FALSE, value |-> <<>>],
   [present |-> TRUE, isString |-> FALSE, value |-> <<>>]}
    \cup {[present |-> TRUE, isString |-> TRUE, value |-> v] :
            v \in {<<>>, <<" ">>, <<" ","R","e","a","c","t"," ","1","9"," ">>, <<"f","o","r","m","s">>}}

KeywordVocab == {<<"R","e","a","c","t">>, <<"f","e","a","t","u","r","e","s">>, <<>>}

RECURSIVE KeywordLists(_)
KeywordLists(n) ==
  IF n = 0 THEN {<<>>}
  ELSE LET shorter == KeywordLists(n - 1)
       IN  shorter \cup {l \o <<k>> : l \in {s \in shorter : Len(s) = n - 1},
                                      k \in KeywordVocab}

KeywordsOptions ==
  {[present |-> FALSE, isArray |-> FALSE, value |-> <<>>],
   [present |-> TRUE, isArray |-> FALSE, value |-> <<>>]}
    \cup {[present |-> TRUE, isArray |-> TRUE, value |-> l] : l \in KeywordLists(MaxKeywords)}

ResourceInputs ==
  {[skillName |-> n, topic |-> tp, keywords |-> k] :
     n \in SkillNames, tp \in TopicOptions, k \in KeywordsOptions}

\* The skill's directory as a call finds it.
SkillDirs ==
  {[skillExists |-> FALSE, resourcesExists |-> FALSE, listable |-> FALSE, entries |-> <<>>],
   [skillExists |-> TRUE, resourcesExists |-> FALSE, listable |-> FALSE, entries |-> <<>>],
   [skillExists |-> TRUE, resourcesExists |-> TRUE, listable |-> FALSE, entries |-> <<>>],
   [skillExists |-> TRUE, resourcesExists |-> TRUE, listable |-> TRUE,
    entries |-> << [name |-> <<"f","o","r","m","s",".","m","d">>, isFile |-> TRUE, statOk |-> TRUE],
                   [name |-> <<"R","e","a","c","t","-","1","9","-","2","-","f","e","a","t","u","r","e","s",".","m","d">>, isFile |-> TRUE, statOk |-> TRUE],
                   [name |-> <<".","h","i","d","d","e","n",".","m","d">>, isFile |-> TRUE, statOk |-> TRUE],
                   [name |-> <<"i","m","a","g","e","s">>, isFile |-> FALSE, statOk |-> TRUE],
                   [name |-> <<"n","o","t","e","s",".","t","x","t">>, isFile |-> TRUE, statOk |-> TRUE],
                   [name |-> <<"g","o","n","e",".","m","d">>, isFile |-> TRUE, statOk |-> FALSE] >>]}

\* The calls of getSkillResources the model makes.
GetSkillResourcesCalls ==
  {[input |-> i, result |-> getSkillResources(i, d)] : i \in ResourceInputs, d \in SkillDirs}

\* ------------------------------------------------------------------------
\* State
\* ------------------------------------------------------------------------
VARIABLES
  cachedSkills,  \* the module variable of skill-discovery.ts
  last,          \* the last tool call: its name, input, returned Result and
                 \* whether it scanned the skills directory
  calls,         \* the discoverSkillsCached calls in flight: where each
                 \* stands and the Result it holds
  cacheLog,      \* what has happened to cachedSkills: directory scans made,
                 \* assignments made, and the first list returned ok
  projectRoot,   \* the project directory: SESSION_TRACKER.json and the
                 \* briefs under archive/
  clock,         \* the time new Date() last returned
  updates        \* the updateSessionTracker calls in flight: where each
                 \* stands, with the tracker it is about to save or the
                 \* Result it returned; and the commits counted when they
                 \* started

\* Number of discoverSkillsCached calls that may overlap.
MaxCalls == 3

CallIds == 1..MaxCalls

NoResult == [ok |-> FALSE, error |-> <<>>, value |-> <<>>]

NotStarted ==
  [pc |-> "idle", startedAfterOk |-> FALSE, scanned |-> FALSE, result |-> NoResult]

cacheVars == <<calls, cacheLog>>

sessionVars == <<projectRoot, clock>>

vars == <<cachedSkills, last, calls, cacheLog, projectRoot, clock, updates>>

\* Number of updateSessionTracker calls that may overlap.
MaxUpdates == 3

UpdateIds == 1..MaxUpdates

UpdateNotStarted == [pc |-> "idle"]

NoUpdates == [commitsAtStart |-> 0, call |-> [c \in UpdateIds |-> UpdateNotStarted]]

\* Largest reading of the clock.
MaxTime == 2

\* Largest number of commits, modified files and completed work items in a
\* state file a session starts with.
MaxCommits == 6

MaxFiles == 21

MaxWork == 1

\* A tracker with the given counts, as update_session_tracker leaves it.
TrackerWith(commits, files, work) ==
  LET counted ==
        [sessionStart |-> 0,
         lastCheckpoint |-> 0,
         currentPhase |-> "Phase 9",
         completedSinceCheckpoint |-> SubSeq([i \in 1..work |-> <<"milestone", i>>], 1, work),
         inProgress |-> "Writing tests",
         filesModified |-> SubSeq([i \in 1..files |-> <<"src/file", i>>], 1, files),
         commitsSinceCheckpoint |-> commits,
         checkpointStatus |-> "none",
         lastCommit |-> IF commits > 0 THEN <<"a1b2c3d">> ELSE <<>>]
  IN  [counted EXCEPT !.checkpointStatus = calculateCheckpointStatus(counted)]

\* The state files a session can start with.
StateFiles ==
  {NoStateFile,
   [status |-> "corrupt"],
   [status |-> "invalid"]}
    \cup {[status |-> "valid", tracker |-> TrackerWith(c, f, w)] :
            c \in 0..MaxCommits, f \in 0..MaxFiles, w \in 0..MaxWork}

\* A path no state file of StateFiles holds, and one every state file with
\* a modified file holds.
NewFile == <<"src/file", 0>>

KnownFile == <<"src/file", 1>>

\* The filesModified lists of an update: none, one new path, a known path
\* followed by a new one, and the same new path twice.
UpdateFileLists == {<<>>, <<NewFile>>, <<KnownFile, NewFile>>, <<NewFile, NewFile>>}

\* The inputs of update_session_tracker: one of the wrong type, and
\* progress notes, a commit and modified files in any combination.
UpdateInputs ==
  {[wellTyped |-> FALSE, currentPhase |-> "", completedWork |-> <<>>,
    inProgress |-> "", filesModified |-> <<>>, commitMade |-> FALSE,
    lastCommit |-> <<>>]}
    \cup {[wellTyped |-> TRUE,
            currentPhase |-> IF notes THEN "Phase 10" ELSE "",
            completedWork |-> IF notes THEN <<"milestone", 0>> ELSE <<>>,
            inProgress |-> IF notes THEN "Writing docs" ELSE "",
            filesModified |-> files,
            commitMade |-> commit,
            lastCommit |-> IF commit THEN <<"c0ffee1">> ELSE <<>>] :
              notes \in BOOLEAN, commit \in BOOLEAN, files \in UpdateFileLists}

\* The updates that report a commit and nothing else.
CommitInputs ==
  {input \in UpdateInputs :
     /\ input.wellTyped /\ input.commitMade
     /\ input.currentPhase = "" /\ input.filesModified = <<>>}

\* The counts the model follows a tracker up to.
WithinBounds(tracker) ==
  /\ tracker.commitsSinceCheckpoint <= MaxCommits
  /\ Len(tracker.filesModified) <= MaxFiles
  /\ Len(tracker.completedSinceCheckpoint) <= MaxWork

\* The state files a session of updates starts with: none, or a tracker one
\* file short of a threshold.
SessionStateFiles ==
  {NoStateFile}
    \cup {[status |-> "valid", tracker |-> TrackerWith(0, f, 0)] :
            f \in {CHECKPOINT_THRESHOLDS.SUGGESTED.filesModified - 1,
                   CHECKPOINT_THRESHOLDS.RECOMMENDED.filesModified - 1,
                   CHECKPOINT_THRESHOLDS.URGENT.filesModified - 1}}

BriefInputs == {[hasReason |-> r, hasLists |-> l] : r \in BOOLEAN, l \in BOOLEAN}

\* new Date(): the clock does not run backwards.
Now == {t \in {clock, clock + 1} : t <= MaxTime}

InitSkills ==
  /\ cachedSkills = NoCache
  /\ last = [tool |-> "none", cacheBefore |-> NoCache]
  /\ calls = [c \in CallIds |-> NotStarted]
  /\ cacheLog = [scans |-> 0, assignments |-> 0,
                 returnedOk |-> FALSE, firstOk |-> <<>>]

Init ==
  /\ InitSkills
  /\ projectRoot = [stateFile |-> NoStateFile, archiveDir |-> FALSE, archive |-> {}]
  /\ clock = 0
  /\ updates = NoUpdates

\* A session of updates and briefs, late enough that the clock stands at
\* its largest reading.
InitSession ==
  /\ InitSkills
  /\ projectRoot \in {[stateFile |-> f, archiveDir |-> TRUE, archive |-> {}] :
                         f \in SessionStateFiles}
  /\ clock = MaxTime
  /\ updates = NoUpdates

\* Overlapping updates of a tracker with any number of commits.
InitUpdates ==
  /\ InitSkills
  /\ \E c \in 0..MaxCommits :
       /\ projectRoot = [stateFile |-> [status |-> "valid",
                                        tracker |-> TrackerWith(c, 0, 0)],
                         archiveDir |-> TRUE, archive |-> {}]
       /\ updates = [NoUpdates EXCEPT !.commitsAtStart = c]
  /\ clock = 0

\* A session that starts in a project directory with any state file.
InitTracker ==
  /\ InitSkills
  /\ projectRoot \in {[stateFile |-> f, archiveDir |-> d, archive |-> {}] :
                         f \in StateFiles, d \in BOOLEAN}
  /\ clock = 0
  /\ updates = NoUpdates

SuggestAgent ==
  \E call \in SuggestAgentCalls :
    /\ last' = [tool |-> "suggest_agent", input |-> call.input,
                result |-> call.result, scanned |-> FALSE,
                cacheBefore |-> cachedSkills]
    /\ UNCHANGED cachedSkills
    /\ UNCHANGED cacheVars
    /\ UNCHANGED updates
    /\ UNCHANGED sessionVars

GetSkillResources ==
  \E call \in GetSkillResourcesCalls :
    /\ last' = [tool |-> "get_skill_resources", input |-> call.input,
                result |-> call.result, scanned |-> FALSE,
                cacheBefore |-> cachedSkills]
    /\ UNCHANGED cachedSkills
    /\ UNCHANGED cacheVars
    /\ UNCHANGED updates
    /\ UNCHANGED sessionVars

\* The directory states a call can meet: it is read only while nothing is
\* cached.
DisksRead(cached) == IF cached.loaded THEN {MissingDisk} ELSE Disks

GetRelevantSkills ==
  \/ \E call \in RejectedSkillCalls :
       /\ last' = [tool |-> "get_relevant_skills", input |-> call.input,
                   result |-> call.result, scanned |-> FALSE,
                   cacheBefore |-> cachedSkills]
       /\ UNCHANGED cachedSkills
       /\ UNCHANGED cacheVars
       /\ UNCHANGED updates
       /\ UNCHANGED sessionVars
  \/ \E disk \in DisksRead(cachedSkills) :
       \E discovery \in {discoverSkillsCached(cachedSkills, disk)} :
         \/ /\ ~discovery.result.ok
            /\ \E input \in AcceptedSkillInputs :
                 last' = [tool |-> "get_relevant_skills", input |-> input,
                          result |-> [ok |-> FALSE, error |-> discovery.result.error],
                          scanned |-> discovery.scanned,
                          cacheBefore |-> cachedSkills]
            /\ cachedSkills' = discovery.cache
            /\ UNCHANGED cacheVars
            /\ UNCHANGED updates
            /\ UNCHANGED sessionVars
         \/ /\ discovery.result.ok
            /\ \E table \in SkillMatchCalls :
                 /\ table.skills = discovery.result.value
                 /\ \E call \in table.calls :
                      last' = [tool |-> "get_relevant_skills", input |-> call.input,
                               result |-> [ok |-> TRUE,
                                           value |-> getRelevantSkillsOutput(
                                                       discovery.result.value,
                                                       call.matches)],
                               scanned |-> discovery.scanned,
                          cacheBefore |-> cachedSkills]
            /\ cachedSkills' = discovery.cache
            /\ UNCHANGED cacheVars
            /\ UNCHANGED updates
            /\ UNCHANGED sessionVars

\* A discoverSkillsCached call returns: the first ok return is remembered.
returned(log, result) ==
  IF result.ok /\ ~log.returnedOk
    THEN [log EXCEPT !.returnedOk = TRUE, !.firstOk = result.value]
    ELSE log

\* discoverSkillsCached up to its await: with a cached list it returns it,
\* otherwise it calls discoverSkills and waits for it.
DiscoverSkillsCachedCall(c) ==
  /\ calls[c].pc = "idle"
  /\ IF cachedSkills.loaded
       THEN LET result == [ok |-> TRUE, error |-> <<>>, value |-> cachedSkills.skills]
            IN  /\ calls' = [calls EXCEPT ![c] =
                               [pc |-> "returned",
                                startedAfterOk |-> cacheLog.returnedOk,
                                scanned |-> FALSE, result |-> result]]
                /\ cacheLog' = returned(cacheLog, result)
       ELSE /\ calls' = [calls EXCEPT ![c] =
                           [pc |-> "awaiting",
                            startedAfterOk |-> cacheLog.returnedOk,
                            scanned |-> FALSE, result |-> NoResult]]
            /\ UNCHANGED cacheLog
  /\ UNCHANGED <<cachedSkills, last>>
  /\ UNCHANGED sessionVars
  /\ UNCHANGED updates

\* discoverSkills runs for a waiting call.  The directory it meets depends
\* on the skillsDir argument and on when the scan runs.
DiscoverSkillsRun(c) ==
  /\ calls[c].pc = "awaiting"
  /\ \E disk \in Disks :
       /\ calls' = [calls EXCEPT ![c].pc = "resolved",
                                 ![c].scanned = disk.exists,
                                 ![c].result = discoverSkills(disk)]
       /\ cacheLog' = [cacheLog EXCEPT !.scans =
                         IF disk.exists THEN @ + 1 ELSE @]
  /\ UNCHANGED <<cachedSkills, last>>
  /\ UNCHANGED sessionVars
  /\ UNCHANGED updates

\* discoverSkillsCached after its await: an ok result is assigned to
\* cachedSkills, and the result is returned.
DiscoverSkillsCachedResume(c) ==
  /\ calls[c].pc = "resolved"
  /\ calls' = [calls EXCEPT ![c].pc = "returned"]
  /\ IF calls[c].result.ok
       THEN /\ cachedSkills' = [loaded |-> TRUE, skills |-> calls[c].result.value]
            /\ cacheLog' = returned([cacheLog EXCEPT !.assignments = @ + 1],
                                    calls[c].result)
       ELSE /\ UNCHANGED cachedSkills
            /\ cacheLog' = returned(cacheLog, calls[c].result)
  /\ UNCHANGED last
  /\ UNCHANGED sessionVars
  /\ UNCHANGED updates

\* discoverSkills run on a skills directory, outside the cache.
DiscoverSkills ==
  \E call \in DiscoverSkillsCalls :
    /\ last' = [tool |-> "discoverSkills", input |-> call.input,
                result |-> call.result, scanned |-> call.input.exists,
                cacheBefore |-> cachedSkills]
    /\ UNCHANGED cachedSkills
    /\ UNCHANGED cacheVars
    /\ UNCHANGED updates
    /\ UNCHANGED sessionVars

\* should_create_checkpoint
ShouldCreateCheckpoint ==
  \E now \in Now :
    \E call \in {checkShouldCreateCheckpoint(projectRoot.stateFile, now)} :
      /\ last' = [tool |-> "should_create_checkpoint", input |-> <<>>,
                  result |-> call.result, threw |-> FALSE,
                  loaded |-> call.loaded,
                  scanned |-> FALSE, cacheBefore |-> cachedSkills,
                  rootBefore |-> projectRoot, now |-> now]
      /\ projectRoot' = [projectRoot EXCEPT !.stateFile = call.file]
      /\ clock' = now
      /\ UNCHANGED cachedSkills
      /\ UNCHANGED cacheVars
      /\ UNCHANGED updates

\* create_continuation_brief; the creation of archive/ and each of its two
\* writes succeeds or fails.
CreateContinuationBrief ==
  \E input \in BriefInputs, now \in Now, dirCreated \in BOOLEAN,
     briefWritten \in BOOLEAN, trackerWritten \in BOOLEAN :
    \E call \in {createContinuationBrief(input, projectRoot, now, dirCreated,
                                         briefWritten, trackerWritten)} :
      /\ last' = [tool |-> "create_continuation_brief", input |-> input,
                  result |-> call.result, threw |-> call.threw,
                  loaded |-> call.loaded,
                  saved |-> call.saved,
                  scanned |-> FALSE, cacheBefore |-> cachedSkills,
                  rootBefore |-> projectRoot, now |-> now]
      /\ projectRoot' = call.root
      /\ clock' = now
      /\ UNCHANGED cachedSkills
      /\ UNCHANGED cacheVars
      /\ UNCHANGED updates

\* update_session_tracker, run without interruption; its write succeeds or
\* fails.
UpdateSessionTracker ==
  \E input \in UpdateInputs, now \in Now, written \in BOOLEAN :
    \E call \in {updateSessionTracker(input, projectRoot.stateFile, now, written)} :
      /\ call.file.status = "valid" => WithinBounds(call.file.tracker)
      /\ last' = [tool |-> "update_session_tracker", input |-> input,
                  result |-> call.result, threw |-> FALSE,
                  loaded |-> call.loaded,
                  saved |-> call.result.ok,
                  scanned |-> FALSE, cacheBefore |-> cachedSkills,
                  rootBefore |-> projectRoot, now |-> now]
      /\ projectRoot' = [projectRoot EXCEPT !.stateFile = call.file]
      /\ clock' = now
      /\ UNCHANGED cachedSkills
      /\ UNCHANGED cacheVars
      /\ UNCHANGED updates

\* updateSessionTracker up to `await saveSessionTracker`: the state file is
\* read and the update applied to what was read.
UpdateLoad(c) ==
  /\ updates.call[c].pc = "idle"
  /\ \E input \in CommitInputs, now \in Now :
       \E load \in {updateSessionTrackerLoad(input, projectRoot.stateFile, now)} :
         /\ updates' = [updates EXCEPT !.call[c] =
                          IF load.result.ok
                            THEN [pc |-> "loaded", tracker |-> load.tracker]
                            ELSE [pc |-> "returned", result |-> load.result]]
         /\ projectRoot' = [projectRoot EXCEPT !.stateFile = load.file]
         /\ clock' = now
  /\ UNCHANGED <<cachedSkills, last>>
  /\ UNCHANGED cacheVars

\* updateSessionTracker from its save on: the tracker held is written over
\* the state file, or the write fails.
UpdateSave(c) ==
  /\ updates.call[c].pc = "loaded"
  /\ \E written \in BOOLEAN :
       \E save \in {updateSessionTrackerSave(updates.call[c].tracker,
                                             projectRoot.stateFile, written)} :
         /\ updates' = [updates EXCEPT !.call[c] =
                          [pc |-> "returned", result |-> save.result]]
         /\ projectRoot' = [projectRoot EXCEPT !.stateFile = save.file]
  /\ UNCHANGED <<cachedSkills, last, clock>>
  /\ UNCHANGED cacheVars

\* A handler answers a failed Result: `if (!result.ok)` of each tool.
ErrorResponse ==
  \E response \in ErrorResponses :
    /\ last' = [tool |-> "error_response", toolName |-> response.toolName,
                error |-> response.error, text |-> response.text,
                earlierText |-> response.earlierText,
                scanned |-> FALSE, cacheBefore |-> cachedSkills]
    /\ UNCHANGED cachedSkills
    /\ UNCHANGED cacheVars
    /\ UNCHANGED updates
    /\ UNCHANGED sessionVars

Next == SuggestAgent \/ GetRelevantSkills \/ GetSkillResources

NextErrors == ErrorResponse

SpecErrors == Init /\ [][NextErrors]_vars

\* The session tools.
NextTracker == ShouldCreateCheckpoint \/ CreateContinuationBrief

SpecTracker == InitTracker /\ [][NextTracker]_vars

\* Updates and briefs, one at a time.
NextSession == UpdateSessionTracker \/ CreateContinuationBrief

SpecSession == InitSession /\ [][NextSession]_vars

\* updateSessionTracker calls that may overlap.
NextUpdates ==
  \E c \in UpdateIds :
    \/ UpdateLoad(c)
    \/ UpdateSave(c)

SpecUpdates == InitUpdates /\ [][NextUpdates]_vars

NextDiscovery == DiscoverSkills

SpecDiscovery == Init /\ [][NextDiscovery]_vars

\* discoverSkillsCached calls that may overlap.
NextCache ==
  \E c \in CallIds :
    \/ DiscoverSkillsCachedCall(c)
    \/ DiscoverSkillsRun(c)
    \/ DiscoverSkillsCachedResume(c)

SpecCache == Init /\ [][NextCache]_vars

Spec == Init /\ [][Next]_vars

\* suggest_agent calls alone.
NextAgent == SuggestAgent

SpecAgent == Init /\ [][NextAgent]_vars

\* The two tools that take a prompt.
NextPrompts == SuggestAgent \/ GetRelevantSkills

SpecPrompts == Init /\ [][NextPrompts]_vars

\* get_relevant_skills calls alone.
NextSkills == GetRelevantSkills

SpecSkills == Init /\ [][NextSkills]_vars

\* get_skill_resources calls alone.
NextResources == GetSkillResources

SpecResources == Init /\ [][NextResources]_vars

\* ------------------------------------------------------------------------
\* Properties of suggest_agent
\* ------------------------------------------------------------------------
Range(seq) == {seq[i] : i \in 1..Len(seq)}

SuggestAgentOk == last.tool = "suggest_agent" /\ last.result.ok

Recommendations == last.result.value.recommendations

\* The prompt matchAgent receives: the validated (trimmed) prompt.
ValidatedPrompt == trim(last.input.prompt)

\* The distinct signal strings of an agent that occur in the lower-cased prompt.
DistinctMatched(prompt, agent) ==
  {s \in Range(agent.complexitySignals) \cup Range(agent.domainSignals) :
     includes(toLowerCase(prompt), s)}

AgentIndex(name) == CHOOSE i \in 1..Len(AGENTS) : AGENTS[i].name = name

\* C1: for every prompt and agent, with n the number of distinct signal
\* strings of the agent that occur in the lower-cased prompt, matchAgent's
\* confidence is 0 when n = 0 and min(95, 60 + 10*(n-1)) otherwise.
C1_DistinctSignalConfidence ==
  SuggestAgentOk =>
    \A i \in 1..Len(AGENTS) :
      LET n == Cardinality(DistinctMatched(ValidatedPrompt, AGENTS[i]))
      IN  matchAgent(ValidatedPrompt, AGENTS[i]).confidence =
            IF n = 0 THEN 0 ELSE Min(95, 60 + 10 * (n - 1))

\* C2: every recommendation suggestAgent returns has an integer confidence
\* between 50 and 95.
C2_ConfidenceRange ==
  SuggestAgentOk =>
    \A i \in 1..Len(Recommendations) : Recommendations[i].confidence \in 50..95

\* A call returned a recommendation whose bonus exceeded the cap.
C2_Witness ==
  /\ SuggestAgentOk
  /\ \E i \in 1..Len(Recommendations) :
       /\ Recommendations[i].confidence = 95
       /\ Len(Recommendations[i].matchedSignals) >= 5

\* C3: an agent is in the result if and only if at least one of its
\* complexity or domain signals is a substring of the lower-cased prompt.
C3_ReturnedIffMatched ==
  SuggestAgentOk =>
    \A i \in 1..Len(AGENTS) :
      (\E r \in 1..Len(Recommendations) :
          Recommendations[r].agent.name = AGENTS[i].name)
        <=> DistinctMatched(ValidatedPrompt, AGENTS[i]) # {}

\* A call returned an agent that matched exactly one signal and left out an
\* agent that matched none.
C3_Witness ==
  /\ SuggestAgentOk
  /\ \E r \in 1..Len(Recommendations) :
       Len(Recommendations[r].matchedSignals) = 1
  /\ \E i \in 1..Len(AGENTS) :
       DistinctMatched(ValidatedPrompt, AGENTS[i]) = {}

\* C4: the recommendations are in non-increasing order of confidence, and
\* agents of equal confidence keep their catalog order.
C4_SortedStable ==
  SuggestAgentOk =>
    \A i, j \in 1..Len(Recommendations) :
      i < j =>
        /\ Recommendations[i].confidence >= Recommendations[j].confidence
        /\ Recommendations[i].confidence = Recommendations[j].confidence
             => AgentIndex(Recommendations[i].agent.name)
                  < AgentIndex(Recommendations[j].agent.name)

\* A call whose result has two agents of equal confidence and an agent
\* moved in front of one that precedes it in the catalog.
C4_Witness ==
  /\ SuggestAgentOk
  /\ \E i, j \in 1..Len(Recommendations) :
       i < j /\ Recommendations[i].confidence = Recommendations[j].confidence
  /\ \E i, j \in 1..Len(Recommendations) :
       /\ i < j
       /\ AgentIndex(Recommendations[i].agent.name)
            > AgentIndex(Recommendations[j].agent.name)

\* ------------------------------------------------------------------------
\* Properties of input validation
\* ------------------------------------------------------------------------
PromptCall == last.tool \in {"suggest_agent", "get_relevant_skills"}

\* The prompt is missing, not a string, blank, or longer than the limit once
\* trimmed.
PromptInvalid(input) ==
  \/ input.kind # "string"
  \/ \A i \in 1..Len(input.prompt) : input.prompt[i] \in WhiteSpace
  \/ Len(trim(input.prompt)) > 10000

\* C5: suggestAgent and getRelevantSkills reject an invalid prompt with an
\* error that starts with 'Invalid input'; the call returns no
\* recommendations or matches, scans no directory and leaves the catalog
\* cache as it was.
C5_InvalidPromptRejected ==
  (PromptCall /\ PromptInvalid(last.input)) =>
    /\ ~last.result.ok
    /\ last.result.error[1] = "Invalid input"
    /\ DOMAIN last.result = {"ok", "error"}
    /\ ~last.scanned
    /\ cachedSkills = last.cacheBefore

\* get_relevant_skills rejected a prompt longer than the limit while a
\* catalog was cached.
C5_Witness ==
  /\ last.tool = "get_relevant_skills"
  /\ last.input.kind = "string"
  /\ Len(trim(last.input.prompt)) > 10000
  /\ ~last.result.ok
  /\ cachedSkills.loaded

\* ------------------------------------------------------------------------
\* Properties of get_skill_resources
\* ------------------------------------------------------------------------
ResourcesOk == last.tool = "get_skill_resources" /\ last.result.ok

\* The topic and keywords calculateRelevance receives.
SuppliedTopic ==
  IF last.input.topic.present THEN trim(last.input.topic.value) ELSE <<>>

SuppliedKeywords ==
  IF last.input.keywords.present THEN last.input.keywords.value ELSE <<>>

TopicTerm(resource) ==
  IF Len(SuppliedTopic) > 0
       /\ includes(toLowerCase(resource.topic), toLowerCase(SuppliedTopic))
    THEN 1 ELSE 0

KeywordTerms(resource) ==
  Cardinality({i \in 1..Len(SuppliedKeywords) :
                 includes(toLowerCase(resource.topic), toLowerCase(SuppliedKeywords[i]))})

\* C7: the relevance of every returned resource is
\* min(100, 50 + 40*t + 10*k), t = 1 iff a non-empty topic was supplied and
\* occurs in the resource's topic, k the number of keyword entries that
\* occur in it; and every returned resource has relevance above 40.
C7_RelevanceFormula ==
  ResourcesOk =>
    \A r \in 1..Len(last.result.value.recommendations) :
      LET rec == last.result.value.recommendations[r] IN
      /\ rec.relevance =
           Min(100, 50 + 40 * TopicTerm(rec.resource) + 10 * KeywordTerms(rec.resource))
      /\ rec.relevance > 40

\* A returned resource matched the topic and two keywords: its sum passes
\* the cap.
C7_Witness ==
  /\ ResourcesOk
  /\ \E r \in 1..Len(last.result.value.recommendations) :
       LET rec == last.result.value.recommendations[r] IN
       /\ TopicTerm(rec.resource) = 1
       /\ KeywordTerms(rec.resource) >= 2
       /\ rec.relevance = 100

\* ------------------------------------------------------------------------
\* Properties of get_relevant_skills
\* ------------------------------------------------------------------------
SkillsOk == last.tool = "get_relevant_skills" /\ last.result.ok

Matches == last.result.value.matches

\* The catalog an ok call used: the one cached when it returns.
CatalogUsed == cachedSkills.skills

NormalizedPrompt == toLowerCase(trim(last.input.prompt))

OpenFilesSupplied ==
  IF last.input.openFiles.present THEN last.input.openFiles.value ELSE <<>>

KeywordsOf(skill) == Range(skill.keywords)

AllSignalsMatch(skill) ==
  /\ \A k \in KeywordsOf(skill) : includes(NormalizedPrompt, k)
  /\ \A c \in contentSignals(skill) : includes(NormalizedPrompt, c)

\* C8: in a call with no open files, a skill that declares a keyword or a
\* content signal and whose keywords and content signals all match is
\* returned with confidence 100.
C8_FullMatchWithoutFiles ==
  (SkillsOk /\ Len(OpenFilesSupplied) = 0) =>
    \A s \in 1..Len(CatalogUsed) :
      LET skill == CatalogUsed[s] IN
      (KeywordsOf(skill) \cup contentSignals(skill) # {} /\ AllSignalsMatch(skill)) =>
        \E m \in 1..Len(Matches) :
          /\ Matches[m].skill.skillPath = skill.skillPath
          /\ Matches[m].confidence = 100

\* A call without open files matched every keyword and content signal of a
\* skill that declares keywords, content signals and file patterns.
C8_Witness ==
  /\ SkillsOk
  /\ Len(OpenFilesSupplied) = 0
  /\ \E s \in 1..Len(CatalogUsed) :
       LET skill == CatalogUsed[s] IN
       /\ KeywordsOf(skill) # {}
       /\ contentSignals(skill) # {}
       /\ Len(skill.filePatterns) > 0
       /\ AllSignalsMatch(skill)

\* C9: every match getRelevantSkills returns has an integer confidence
\* between 0 and 100.
C9_SkillConfidenceRange ==
  SkillsOk => \A m \in 1..Len(Matches) : Matches[m].confidence \in 0..100

\* A call with open files returned a skill matched in all three categories.
C9_Witness ==
  /\ SkillsOk
  /\ \E m \in 1..Len(Matches) :
       /\ Matches[m].matchedSignals.keywords # {}
       /\ Matches[m].matchedSignals.files # {}
       /\ Matches[m].matchedSignals.content # {}
       /\ Matches[m].confidence = 100

HasMatchedSignal(skill) ==
  \/ \E k \in KeywordsOf(skill) : Len(k) > 0 /\ includes(NormalizedPrompt, k)
  \/ \E g \in Range(skill.filePatterns), f \in Range(OpenFilesSupplied) :
       Len(g) > 0 /\ globMatch(g, 1, f, 1)
  \/ \E c \in contentSignals(skill) : Len(c) > 0 /\ includes(NormalizedPrompt, c)

\* C10: a skill with no matched signal in any category is not among the
\* matches.
C10_UnmatchedSkillOmitted ==
  SkillsOk =>
    \A s \in 1..Len(CatalogUsed) :
      ~HasMatchedSignal(CatalogUsed[s]) =>
        \A m \in 1..Len(Matches) :
          Matches[m].skill.skillPath # CatalogUsed[s].skillPath

\* A call returned one skill of the catalog and left out another that
\* matched nothing.
C10_Witness ==
  /\ SkillsOk
  /\ Len(Matches) > 0
  /\ \E s \in 1..Len(CatalogUsed) : ~HasMatchedSignal(CatalogUsed[s])

\* C11: every ok result of getRelevantSkills reports totalSkillsScanned equal
\* to the number of skills in the catalog the call used, however many of
\* them matched, and never more matches than that; with an empty catalog
\* the call is ok with no matches and totalSkillsScanned = 0.
C11_TotalSkillsScanned ==
  SkillsOk =>
    /\ last.result.value.totalSkillsScanned = Len(CatalogUsed)
    /\ Len(Matches) <= last.result.value.totalSkillsScanned
    /\ (CatalogUsed = <<>> =>
          Matches = <<>> /\ last.result.value.totalSkillsScanned = 0)

\* A call that met an existing, empty skills directory.
C11_Witness ==
  /\ SkillsOk
  /\ last.scanned
  /\ CatalogUsed = <<>>
  /\ Matches = <<>>
  /\ last.result.value.totalSkillsScanned = 0

\* A call on a catalog of several skills of which fewer matched.
C11_SomeUnmatched ==
  /\ SkillsOk
  /\ 0 < Len(Matches)
  /\ Len(Matches) < Len(CatalogUsed)
\* ------------------------------------------------------------------------
\* Properties of discoverSkillsCached
\* ------------------------------------------------------------------------
\* C12: the skill catalog cache is initialised once: even when several
\* discoverSkillsCached calls start before the first load has finished, at
\* most one directory scan is performed and cachedSkills, once set, is
\* never assigned again.
C12_CacheInitialisedOnce ==
  /\ cacheLog.scans <= 1
  /\ cacheLog.assignments <= 1

\* C13: after one discoverSkillsCached call has returned ok, every later
\* call returns ok with that same list without scanning the directory,
\* whatever directory it is pointed at, and the cache is never reset.
C13_LaterCallsReadCache ==
  /\ cacheLog.returnedOk => cachedSkills.loaded
  /\ \A c \in CallIds :
       calls[c].startedAfterOk =>
         /\ calls[c].pc = "returned"
         /\ calls[c].result.ok
         /\ calls[c].result.value = cacheLog.firstOk
         /\ ~calls[c].scanned
\* ------------------------------------------------------------------------
\* Properties of discoverSkills
\* ------------------------------------------------------------------------
Discovered == last.tool = "discoverSkills" /\ last.result.ok

\* A directory entry discoverSkills should keep.
UsableSkillFile(file) ==
  /\ ~startsWith(file.entry, <<".">>)
  /\ file.readable
  /\ file.content.frontmatter.block = "ok"
  /\ file.content.frontmatter.name # ""
  /\ file.content.frontmatter.description # ""

UsableEntries(files) ==
  LET usable == SelectSeq(files, UsableSkillFile)
  IN  [i \in 1..Len(usable) |-> usable[i].entry]

DiscoveredEntries == [i \in 1..Len(last.result.value) |-> last.result.value[i].skillPath]

C15_DistinctNames ==
  Discovered =>
    \A i, j \in 1..Len(last.result.value) :
      i # j => last.result.value[i].name # last.result.value[j].name

\* C16: every keyword of every skill returned by discoverSkills is a
\* non-empty, whitespace-trimmed, lower-case string, and every file pattern
\* is a non-empty string.
C16_NoEmptySignal ==
  Discovered =>
    \A i \in 1..Len(last.result.value) :
      LET skill == last.result.value[i] IN
      /\ \A k \in 1..Len(skill.keywords) :
           /\ Len(skill.keywords[k]) > 0
           /\ skill.keywords[k][1] \notin WhiteSpace
           /\ skill.keywords[k][Len(skill.keywords[k])] \notin WhiteSpace
           /\ \A n \in 1..Len(skill.keywords[k]) :
                \A u \in 1..Len(UpperCase) : skill.keywords[k][n] # UpperCase[u]
      /\ \A f \in 1..Len(skill.filePatterns) : Len(skill.filePatterns[f]) > 0

\* A skill whose Keywords line has empty and upper-case pieces and whose
\* include list has an empty pattern is returned with two keywords and one
\* file pattern.
C16_Witness ==
  /\ Discovered
  /\ \E i \in 1..Len(last.input.files) :
       /\ last.input.files[i] = FullDisk.files[1]
       /\ Len(split(last.input.files[i].content.keywordsLine, ",")) = 3
       /\ Len(last.input.files[i].content.frontmatter.include) = 2
  /\ \E i \in 1..Len(last.result.value) :
       /\ last.result.value[i].name = "convex-patterns"
       /\ Len(last.result.value[i].keywords) = 2
       /\ Len(last.result.value[i].filePatterns) = 1
\* ------------------------------------------------------------------------
\* Properties of the session tools
\* ------------------------------------------------------------------------
CheckpointChecked == last.tool = "should_create_checkpoint" /\ last.result.ok

Commits == last.loaded.value.commitsSinceCheckpoint

FilesModified == Len(last.loaded.value.filesModified)

WorkCompleted == Len(last.loaded.value.completedSinceCheckpoint)

\* C17: calculateCheckpointStatus returns the highest level whose condition
\* holds: 'urgent' iff commits >= 5 or files >= 20; otherwise 'recommended'
\* iff commits >= 3 or files >= 10; otherwise 'suggested' iff commits >= 2
\* or files >= 5 or at least one work item completed since the checkpoint;
\* otherwise 'none'.
C17_CheckpointLevels ==
  CheckpointChecked =>
    last.result.value.status =
      IF Commits >= 5 \/ FilesModified >= 20 THEN "urgent"
      ELSE IF Commits >= 3 \/ FilesModified >= 10 THEN "recommended"
      ELSE IF Commits >= 2 \/ FilesModified >= 5 \/ WorkCompleted >= 1 THEN "suggested"
      ELSE "none"

\* No commit and no modified file, but one completed work item: suggested.
C17_Witness ==
  /\ CheckpointChecked
  /\ Commits = 0
  /\ FilesModified = 0
  /\ WorkCompleted = 1
  /\ last.result.value.status = "suggested"

\* Twenty modified files and fewer than three commits: urgent.
C17_UrgentByFiles ==
  /\ CheckpointChecked
  /\ Commits < 3
  /\ FilesModified = 20
  /\ last.result.value.status = "urgent"

BriefCreated == last.tool = "create_continuation_brief" /\ last.result.ok

Persisted == projectRoot.stateFile.tracker

\* The persisted tracker is the loaded one with its checkpoint reset.
CheckpointReset ==
  /\ projectRoot.stateFile.status = "valid"
  /\ Persisted.commitsSinceCheckpoint = 0
  /\ Persisted.filesModified = <<>>
  /\ Persisted.completedSinceCheckpoint = <<>>
  /\ Persisted.checkpointStatus = "none"
  /\ Persisted.sessionStart = last.loaded.value.sessionStart
  /\ Persisted.currentPhase = last.loaded.value.currentPhase
  /\ Persisted.inProgress = last.loaded.value.inProgress
  /\ Persisted.lastCommit = last.loaded.value.lastCommit

C20_CheckpointCheckReadOnly ==
  last.tool = "should_create_checkpoint" =>
    /\ projectRoot = last.rootBefore
    /\ (last.rootBefore.stateFile.status = "absent" =>
          /\ last.result.ok
          /\ last.result.value.status = "none"
          /\ last.result.value.stats.commitsSinceCheckpoint = 0
          /\ last.result.value.stats.filesModified = 0
          /\ last.result.value.stats.workCompleted = 0)

\* A check made without a state file, which is still absent afterwards.
C20_Witness ==
  /\ CheckpointChecked
  /\ last.rootBefore.stateFile.status = "absent"
  /\ projectRoot.stateFile.status = "absent"
  /\ last.result.value.status = "none"
\* ------------------------------------------------------------------------
\* Properties of the error text
\* ------------------------------------------------------------------------
ErrorAnswered == last.tool = "error_response"

MentionsMissing(message) ==
  \/ includes(message, <<"n","o","t"," ","f","o","u","n","d">>)
  \/ includes(message, <<"d","o","e","s"," ","n","o","t"," ","e","x","i","s","t">>)

\* The fixed text of each class of error, for a tool.
FixedText(toolName, security, message) ==
  IF security
    THEN <<"A","c","c","e","s","s"," ","d","e","n","i","e","d",":"," ","I","n","v","a","l","i","d"," ","p","a","t","h"," ","o","r"," ","p","e","r","m","i","s","s","i","o","n"," ","e","r","r","o","r">>
  ELSE IF MentionsMissing(message)
    THEN toolName \o <<" ","f","a","i","l","e","d",":"," ","R","e","s","o","u","r","c","e"," ","n","o","t"," ","f","o","u","n","d">>
  ELSE IF includes(message, <<"I","n","v","a","l","i","d"," ","i","n","p","u","t">>)
    THEN toolName \o <<" ","f","a","i","l","e","d",":"," ","I","n","v","a","l","i","d"," ","i","n","p","u","t"," ","f","o","r","m","a","t">>
  ELSE toolName \o <<" ","f","a","i","l","e","d",":"," ","P","l","e","a","s","e"," ","c","h","e","c","k"," ","y","o","u","r"," ","i","n","p","u","t"," ","a","n","d"," ","t","r","y"," ","a","g","a","i","n">>

SessionToolCalled ==
  last.tool \in {"create_continuation_brief", "update_session_tracker",
                 "should_create_checkpoint"}

\* C21: no tool operation throws: whichever file-system step fails
\* (existence check, directory creation, directory scan, read, write), the
\* operation completes with a Result value, ok or error.
C21_NoToolThrows == SessionToolCalled => ~last.threw
\* ------------------------------------------------------------------------
\* The README's Example 2
\* ------------------------------------------------------------------------
ReadmeExampleAnswered ==
  SuggestAgentOk /\ last.input.prompt = ReadmeExamplePrompt

UpdateCalls == {c \in UpdateIds : updates.call[c].pc # "idle"}

AllUpdatesReturnedOk ==
  /\ UpdateCalls # {}
  /\ \A c \in UpdateCalls :
       updates.call[c].pc = "returned" /\ updates.call[c].result.ok

\* C23: once every update_session_tracker call with commitMade = true that
\* was started has returned ok, whatever the order of their loads and
\* saves, the persisted commitsSinceCheckpoint is the count they started
\* from plus the number of calls.
C23_NoCommitLost ==
  AllUpdatesReturnedOk =>
    /\ projectRoot.stateFile.status = "valid"
    /\ projectRoot.stateFile.tracker.commitsSinceCheckpoint =
         updates.commitsAtStart + Cardinality(UpdateCalls)

Stored == projectRoot.stateFile.tracker

UpdateSaved ==
  /\ last.tool = "update_session_tracker"
  /\ last.result.ok
  /\ projectRoot.stateFile.status = "valid"

\* C24: whenever updates and briefs are run one at a time, the
\* checkpointStatus of the persisted tracker is calculateCheckpointStatus of
\* that tracker's commits, modified files and completed items.
C24_StoredStatusIsCalculated ==
  projectRoot.stateFile.status = "valid" =>
    Stored.checkpointStatus = calculateCheckpointStatus(Stored)

\* An update has moved the persisted tracker to another checkpoint status.
C24_Witness ==
  /\ UpdateSaved
  /\ last.rootBefore.stateFile.status = "valid"
  /\ last.rootBefore.stateFile.tracker.checkpointStatus # Stored.checkpointStatus
  /\ Stored.checkpointStatus = "urgent"

\* A brief has put a tracker that was due for a checkpoint back to none.
C24_AfterBrief ==
  /\ BriefCreated
  /\ last.saved
  /\ last.loaded.value.checkpointStatus = "recommended"
  /\ Stored.checkpointStatus = "none"

\* C25: after any sequence of update_session_tracker calls the persisted
\* filesModified list holds no path more than once.
C25_NoDuplicateFiles ==
  projectRoot.stateFile.status = "valid" =>
    \A i, j \in 1..Len(Stored.filesModified) :
      Stored.filesModified[i] = Stored.filesModified[j] => i = j
====
